---- MODULE Spec2Model ----
(***************************************************************************)
(* Model of the configuration code generators of RemoteCWKeyer-esp32       *)
(* (scripts/gen_config_c.py, scripts/gen_config.py,                        *)
(* scripts/gen_preset_config.py) and of the C / Rust run-time code they    *)
(* emit: the atomic configuration store with its generation counter, the   *)
(* console registry (lookup, string set/get, pattern matcher), the NVS     *)
(* persistence, and the runs of the generators themselves.                 *)
(*                                                                         *)
(* C strings are sequences of one-character strings; NUL is the            *)
(* terminator byte.  Values of C type unsigned long / uint32_t are pairs   *)
(* <<hi, lo>> of 16-bit limbs (ESP32 is ILP32: unsigned long is 32 bits).   *)
(***************************************************************************)
EXTENDS Integers, Sequences, FiniteSets, TLC

(***************************************************************************)
(* C strings                                                               *)
(***************************************************************************)
NUL == "NUL"

S_keyer      == <<"k","e","y","e","r">>
S_tone       == <<"t","o","n","e">>
S_leds       == <<"l","e","d","s">>
S_hardware   == <<"h","a","r","d","w","a","r","e">>
S_wpm        == <<"w","p","m">>
S_pitch      == <<"p","i","t","c","h">>
S_brightness == <<"b","r","i","g","h","t","n","e","s","s">>
S_mode       == <<"m","o","d","e">>
S_timeout    == <<"t","i","m","e","o","u","t">>
S_callsign   == <<"c","a","l","l","s","i","g","n">>
S_ptt        == <<"p","t","t">>
S_retries    == <<"r","e","t","r","i","e","s">>
S_k          == <<"k">>
S_hw         == <<"h","w">>
Dot          == <<".">>
Star         == <<"*">>

\* f"{a}.{b}"
Join(a, b) == a \o Dot \o b

\* strchr(s, c): 1-based position of the first c in s, 0 when there is none
StrChr(s, c) ==
    IF \E i \in 1..Len(s) : s[i] = c
    THEN CHOOSE i \in 1..Len(s) : s[i] = c /\ \A j \in 1..(i-1) : s[j] # c
    ELSE 0

\* strncmp(s, prefix, n) == 0 where prefix holds exactly n characters
StrNCmpEq(s, prefix, n) ==
    /\ Len(s) >= n
    /\ \A i \in 1..n : s[i] = prefix[i]

\* the characters of s from 1-based position i on
StrFrom(s, i) == SubSeq(s, i, Len(s))

(***************************************************************************)
(* The schema (a v2 document as yaml.safe_load returns it, mappings kept   *)
(* in document order)                                                      *)
(***************************************************************************)
NoRange == <<>>

MkParam(n, t, d, r, ev, ml, key) ==
    [name |-> n, type |-> t, default |-> d, range |-> r, enum_values |-> ev, max_length |-> ml,
     nvs_key |-> key, lacks |-> {}]

Schema == [
  version |-> 2,
  families |-> <<
    [ name |-> S_keyer, order |-> 1, aliases |-> << S_k >>,
      parameters |-> << MkParam(S_wpm, "u8", 20, <<5, 60>>, <<>>, 0, "wpm") >>,
      subfamilies |-> <<
        [ name |-> S_tone, is_composite |-> FALSE,
          parameters |-> << MkParam(S_pitch, "u16", 600, <<400, 800>>, <<>>, 0, "pitch") >> ] >> ],
    [ name |-> S_leds, order |-> 2, aliases |-> <<>>,
      parameters |-> << MkParam(S_brightness, "u8", 50, <<0, 100>>, <<>>, 0, "led_bright") >>,
      subfamilies |-> <<>> ],
    [ name |-> S_hardware, order |-> 3, aliases |-> << S_hw >>,
      parameters |-> <<
         MkParam(S_mode, "enum", "B", NoRange, <<"A", "B", "C">>, 0, "hw_mode"),
         MkParam(S_timeout, "u32", 1000, NoRange, <<>>, 0, "hw_timeout"),
         MkParam(S_callsign, "string", <<"a","b">>, NoRange, <<>>, 2, "callsign"),
         MkParam(S_ptt, "bool", FALSE, NoRange, <<>>, 0, "hw_ptt"),
         MkParam(S_retries, "u8", 3, NoRange, <<>>, 0, "hw_retries") >>,
      subfamilies |-> <<>> ]
  >> ]

RECURSIVE Flatten(_)
Flatten(ss) == IF ss = <<>> THEN <<>> ELSE Head(ss) \o Flatten(Tail(ss))

Annotate(p, fam, sub, path) ==
    [name |-> p.name, type |-> p.type, default |-> p.default, range |-> p.range,
     enum_values |-> p.enum_values, max_length |-> p.max_length, nvs_key |-> p.nvs_key,
     lacks |-> p.lacks, family |-> fam, subfamily |-> sub, full_path |-> path]

\* the parameters of one family: its direct ones, then those of each
\* non-composite subfamily
FamilyParams(f) ==
    [i \in 1..Len(f.parameters) |->
        Annotate(f.parameters[i], f.name, <<>>, Join(f.name, f.parameters[i].name))]
    \o Flatten([s \in 1..Len(f.subfamilies) |->
        IF f.subfamilies[s].is_composite THEN <<>>
        ELSE [i \in 1..Len(f.subfamilies[s].parameters) |->
                Annotate(f.subfamilies[s].parameters[i], f.name, f.subfamilies[s].name,
                         Join(f.name, Join(f.subfamilies[s].name,
                                           f.subfamilies[s].parameters[i].name)))]])

\* parse_v2_schema(schema)[0]: the flat parameter list, in document order
parse_v2_schema(schema) ==
    Flatten([k \in 1..Len(schema.families) |-> FamilyParams(schema.families[k])])

Params == parse_v2_schema(Schema)

NParams == Len(Params)
PIdx == 1..NParams

(***************************************************************************)
(* unsigned long / uint32_t arithmetic on <<hi, lo>> limb pairs            *)
(***************************************************************************)
Limb == 2^16

U32(n) == << n \div Limb, n % Limb >>

ULONG_MAX == << Limb - 1, Limb - 1 >>

U32Lt(a, b) == a[1] < b[1] \/ (a[1] = b[1] /\ a[2] < b[2])

\* -a in unsigned long arithmetic
U32Neg(a) ==
    IF a[2] = 0 THEN << (Limb - a[1]) % Limb, 0 >>
    ELSE << Limb - 1 - a[1], Limb - a[2] >>

\* acc * base + d, with the overflow of unsigned long reported
U32MulAdd(acc, base, d) ==
    LET lo == acc[2] * base + d
        hi == acc[1] * base + (lo \div Limb)
    IN  [val |-> << hi % Limb, lo % Limb >>, ovf |-> hi >= Limb]

DigitChars == <<"0","1","2","3","4","5","6","7","8","9","a","b","c","d","e","f">>

\* the value of character c as a digit, 99 for a character that is none
DigitVal(c) ==
    IF \E i \in 1..Len(DigitChars) : DigitChars[i] = c
    THEN (CHOOSE i \in 1..Len(DigitChars) : DigitChars[i] = c) - 1
    ELSE 99

RECURSIVE SkipSpace(_)
SkipSpace(s) == IF s # <<>> /\ Head(s) = " " THEN SkipSpace(Tail(s)) ELSE s

\* the digit loop of strtoul: stops at the first character that is no digit
\* of the base; any = "none" | "some" | "ovf"
RECURSIVE StrtoulDigits(_, _, _, _)
StrtoulDigits(s, base, acc, any) ==
    IF s = <<>> \/ DigitVal(Head(s)) >= base THEN [acc |-> acc, any |-> any]
    ELSE IF any = "ovf" THEN StrtoulDigits(Tail(s), base, acc, "ovf")
    ELSE LET r == U32MulAdd(acc, base, DigitVal(Head(s)))
         IN  IF r.ovf THEN StrtoulDigits(Tail(s), base, acc, "ovf")
             ELSE StrtoulDigits(Tail(s), base, r.val, "some")

\* strtoul(value, NULL, 0) of the C library: leading blanks, an optional
\* sign, base 16 after "0x", base 8 after "0", else base 10; no digits give
\* 0, an overflow gives ULONG_MAX, and a minus sign negates the result in
\* unsigned long.  The end pointer is NULL: where parsing stopped is lost.
Strtoul(value) ==
    LET s0   == SkipSpace(value)
        neg  == s0 # <<>> /\ Head(s0) = "-"
        s1   == IF s0 # <<>> /\ Head(s0) \in {"-", "+"} THEN Tail(s0) ELSE s0
        hex  == /\ Len(s1) >= 3 /\ s1[1] = "0" /\ s1[2] \in {"x", "X"}
                /\ DigitVal(s1[3]) < 16
        base == IF hex THEN 16 ELSE IF s1 # <<>> /\ Head(s1) = "0" THEN 8 ELSE 10
        s2   == IF hex THEN Tail(Tail(s1)) ELSE s1
        r    == StrtoulDigits(s2, base, U32(0), "none")
    IN  IF r.any = "ovf" THEN ULONG_MAX
        ELSE IF neg THEN U32Neg(r.acc)
        ELSE r.acc

(***************************************************************************)
(* config_console.c: the descriptor table CONSOLE_PARAMS                   *)
(***************************************************************************)
\* the descriptor's min and max columns
DescMin(p) ==
    IF p.range # NoRange THEN U32(p.range[1]) ELSE U32(0)

DescMax(p) ==
    IF p.range # NoRange THEN U32(p.range[2])
    ELSE IF p.type = "enum" THEN U32(Len(p.enum_values) - 1)
    ELSE IF p.type = "bool" THEN U32(1)
    ELSE IF p.type = "string" THEN U32(p.max_length)
    ELSE ULONG_MAX

\* the descriptor's full_path column: family and name, the subfamily is not
\* part of it
DescFullPath(p) == IF p.family # <<>> THEN Join(p.family, p.name) ELSE p.name

\* the rows of CONSOLE_PARAMS emitted for a parameter list
ConsoleParamTable(params) ==
    [i \in 1..Len(params) |->
        [name |-> params[i].name, family |-> params[i].family,
         full_path |-> DescFullPath(params[i]), type |-> params[i].type,
         min |-> DescMin(params[i]), max |-> DescMax(params[i]), field |-> i]]

CONSOLE_PARAMS == ConsoleParamTable(Params)

\* faulty variant: the name compared as a prefix (strncmp over strlen(name))
config_find_param_prefix(name) ==
    IF \E i \in PIdx : StrNCmpEq(CONSOLE_PARAMS[i].full_path, name, Len(name))
    THEN CHOOSE i \in PIdx :
            /\ StrNCmpEq(CONSOLE_PARAMS[i].full_path, name, Len(name))
            /\ \A j \in 1..(i-1) : ~StrNCmpEq(CONSOLE_PARAMS[j].full_path, name, Len(name))
    ELSE 0

\* faulty variant: the loop keeps the last descriptor that matches
FindParamLast(table, name) ==
    IF \E i \in 1..Len(table) : table[i].full_path = name \/ table[i].name = name
    THEN CHOOSE i \in 1..Len(table) :
            /\ table[i].full_path = name \/ table[i].name = name
            /\ \A j \in (i+1)..Len(table) : table[j].full_path # name /\ table[j].name # name
    ELSE 0

\* the loop of config_find_param over a descriptor table: index of the first
\* descriptor whose full path or whose name is the given one, 0 for NULL
FindParam(table, name) ==
    IF \E i \in 1..Len(table) : table[i].full_path = name \/ table[i].name = name
    THEN CHOOSE i \in 1..Len(table) :
            /\ table[i].full_path = name \/ table[i].name = name
            /\ \A j \in 1..(i-1) : table[j].full_path # name /\ table[j].name # name
    ELSE 0

\* config_find_param on the table of the firmware
config_find_param(name) == FindParam(CONSOLE_PARAMS, name)

\* the wildcard branch of config_foreach_matching decides for descriptor i
\* whether the visitor is called
MatchesWildcard(i, prefix, recursive) ==
    LET fp   == CONSOLE_PARAMS[i].full_path
        n    == Len(prefix)
        rest == StrFrom(fp, n + 1)
        r2   == IF rest # <<>> /\ Head(rest) = "." THEN Tail(rest) ELSE rest
    IN  IF n = 0 THEN TRUE
        ELSE IF StrNCmpEq(fp, prefix, n)
             THEN IF recursive THEN TRUE ELSE StrChr(r2, ".") = 0
             ELSE FALSE

RECURSIVE SelectIdx(_, _, _)
SelectIdx(i, prefix, recursive) ==
    IF i > NParams THEN <<>>
    ELSE (IF MatchesWildcard(i, prefix, recursive) THEN << i >> ELSE <<>>)
         \o SelectIdx(i + 1, prefix, recursive)

PREFIX_SIZE == 64

\* config_foreach_matching(pattern, visitor, ctx): the descriptors handed to
\* the visitor, in the order of the calls
config_foreach_matching(pattern) ==
    LET star == StrChr(pattern, "*")
    IN  IF star = 0
        THEN (IF config_find_param(pattern) # 0 THEN << config_find_param(pattern) >> ELSE <<>>)
        ELSE LET len0   == IF star - 1 >= PREFIX_SIZE THEN PREFIX_SIZE - 1 ELSE star - 1
                 pre0   == SubSeq(pattern, 1, len0)
                 prefix == IF len0 > 0 /\ pre0[len0] = "." THEN SubSeq(pre0, 1, len0 - 1)
                           ELSE pre0
                 recursive == star < Len(pattern) /\ pattern[star + 1] = "*"
             IN  SelectIdx(1, prefix, recursive)

(***************************************************************************)
(* config.c: the configuration instance g_config                           *)
(***************************************************************************)
VARIABLES
    cfg,         \* g_config: the field of every parameter, by table index
    generation,  \* g_config.generation (atomic_ushort)
    nvs,         \* the backing store: result of nvs_open and the stored keys
    last,        \* the console / persistence call that returned last, its result
    pre,         \* cfg and generation as they were when that call was entered
    nops,        \* completed console / persistence calls
    nsets,       \* completed sets (the generation bump has been executed)
    wr,          \* writer threads: position inside the setter
    rd,          \* reader thread: position inside the snapshot protocol
    hist,        \* history of the stores, kept for the snapshot properties
    run          \* a run of a generator script: its input, position and output

\* the variables of the firmware
fwVars == << cfg, generation, nvs, last, pre, nops, nsets, wr, rd, hist >>

vars == << cfg, generation, nvs, last, pre, nops, nsets, wr, rd, hist, run >>

GenModulus == 2^16

\* faulty variant: the position counted from 1
IndexOfOneBased(vals, x) ==
    CHOOSE i \in 1..Len(vals) : vals[i] = x /\ \A j \in 1..(i-1) : vals[j] # x

\* list.index: the first position of x in the sequence vals, counted from 0
IndexOf(vals, x) ==
    (CHOOSE i \in 1..Len(vals) : vals[i] = x /\ \A j \in 1..(i-1) : vals[j] # x) - 1

\* strncpy(buf, src, n); buf[n] = '\0'
Strncpy(buf, src, n) ==
    [j \in 1..Len(buf) |->
        IF j <= n THEN (IF j <= Len(src) THEN src[j] ELSE NUL)
        ELSE IF j = n + 1 THEN NUL
        ELSE buf[j]]

\* the C string a buffer holds: its bytes before the first NUL
CString(buf) ==
    IF StrChr(buf, NUL) = 0 THEN buf ELSE SubSeq(buf, 1, StrChr(buf, NUL) - 1)

ZeroBuf(n) == [j \in 1..n |-> NUL]

\* what config_init_defaults stores for parameter p
InitValue(p) ==
    CASE p.type = "bool"   -> p.default
      [] p.type = "enum"   -> IndexOf(p.enum_values, p.default)
      [] p.type = "string" -> Strncpy(ZeroBuf(p.max_length + 1), p.default, p.max_length)
      [] p.type = "u8"     -> p.default % 2^8
      [] p.type = "u16"    -> p.default % 2^16
      [] OTHER             -> U32(p.default)

config_init_defaults == [i \in PIdx |-> InitValue(Params[i])]

\* faulty variant: the counter declared one byte wide
bump_generation_u8(g) == (g + 1) % 2^8

\* config_bump_generation: atomic_fetch_add_explicit(&cfg->generation, 1, release)
bump_generation(g) == (g + 1) % GenModulus

\* the store of set_<family>_<name>(v) into field i of configuration c
StoreField(c, i, v) ==
    IF Params[i].type = "string"
    THEN [c EXCEPT ![i] = Strncpy(c[i], v, Params[i].max_length)]
    ELSE [c EXCEPT ![i] = v]

\* set_<family>_<name>(v) run to completion: the store, then the bump
set_fn(c, g, i, v) == [cfg |-> StoreField(c, i, v), generation |-> bump_generation(g)]

\* get_<family>_<name>()
get_fn(c, i) == IF Params[i].type = "string" THEN CString(c[i]) ELSE c[i]

(***************************************************************************)
(* config_console.c: get and set by name                                   *)
(***************************************************************************)
RET_OK == 0
RET_UNKNOWN == -1
RET_OUT_OF_RANGE == -2
RET_INVALID == -3

S_true  == <<"t","r","u","e">>
S_false == <<"f","a","l","s","e">>
S_on    == <<"o","n">>
S_off   == <<"o","f","f">>
S_yes   == <<"y","e","s">>
S_no    == <<"n","o">>

\* the texts config_set_param_str takes for true, and a shorter list
TrueTokensShort == { S_true, <<"1">> }
TrueTokens  == { S_true, <<"1">>, S_on, S_yes }
\* the texts config_set_param_str takes for false
FalseTokens == { S_false, <<"0">>, S_off, S_no }

\* printf("%u") of a value below 2^31
RECURSIVE Decimal(_)
Decimal(n) ==
    IF n < 10 THEN << DigitChars[n + 1] >>
    ELSE Decimal(n \div 10) \o << DigitChars[(n % 10) + 1] >>

\* printf("%lu") of an unsigned long
RECURSIVE DecimalU32(_)
DecimalU32(a) ==
    LET t == (a[1] % 10) * Limb + a[2]
        q == << a[1] \div 10, t \div 10 >>
    IN  IF a[1] = 0 THEN Decimal(a[2])
        ELSE DecimalU32(q) \o << DigitChars[(t % 10) + 1] >>

\* snprintf(buf, len, ...): at most len - 1 characters are kept
Snprintf(len, text) == SubSeq(text, 1, IF Len(text) < len - 1 THEN Len(text) ELSE len - 1)

\* config_get_param_str(name, buf, len)
config_get_param_str(c, name, len) ==
    LET i == config_find_param(name)
        v == get_fn(c, i)
        t == CONSOLE_PARAMS[i].type
    IN  IF i = 0 \/ len = 0 THEN [ret |-> RET_UNKNOWN, out |-> <<>>]
        ELSE [ret |-> RET_OK,
              out |-> Snprintf(len,
                        CASE t \in {"u8", "enum", "u16"} -> Decimal(v)
                          [] t = "u32"    -> DecimalU32(v)
                          [] t = "bool"   -> (IF v THEN S_true ELSE S_false)
                          [] OTHER        -> v)]

\* the range test of config_set_param_str
OutOfRange(parsed, d) == U32Lt(parsed, d.min) \/ U32Lt(d.max, parsed)

\* config_set_param_str(name, value) on configuration c with counter g
config_set_param_str(c, g, name, value) ==
    LET i      == config_find_param(name)
        d      == CONSOLE_PARAMS[i]
        parsed == Strtoul(value)
        same   == [ret |-> RET_UNKNOWN, cfg |-> c, generation |-> g]
        done(v) == [ret |-> RET_OK] @@ set_fn(c, g, i, v)
    IN  IF i = 0 THEN same
        ELSE CASE d.type \in {"u8", "enum"} ->
                    IF OutOfRange(parsed, d) THEN [same EXCEPT !.ret = RET_OUT_OF_RANGE]
                    ELSE done(parsed[2] % 2^8)
               [] d.type = "u16" ->
                    IF OutOfRange(parsed, d) THEN [same EXCEPT !.ret = RET_OUT_OF_RANGE]
                    ELSE done(parsed[2])
               [] d.type = "u32" ->
                    IF OutOfRange(parsed, d) THEN [same EXCEPT !.ret = RET_OUT_OF_RANGE]
                    ELSE done(parsed)
               [] d.type = "bool" ->
                    IF value \in TrueTokens THEN done(TRUE)
                    ELSE IF value \in FalseTokens THEN done(FALSE)
                    ELSE [same EXCEPT !.ret = RET_INVALID]
               [] OTHER -> done(value)

(***************************************************************************)
(* config_nvs.c: bulk load from the backing store                          *)
(***************************************************************************)
NvsKeys == { Params[i].nvs_key : i \in PIdx }

NoEntry == <<>>

\* the NVS type a parameter is read and written with
NvsType(p) ==
    CASE p.type \in {"u8", "enum", "bool"} -> "u8"
      [] p.type = "u16"    -> "u16"
      [] p.type = "u32"    -> "u32"
      [] OTHER             -> "str"

\* nvs_get_<type>(handle, key, &out) == ESP_OK; for a string the text and its
\* terminator must fit into the sizeof(field) bytes offered
NvsGetOk(kv, p) ==
    /\ kv[p.nvs_key] # NoEntry
    /\ kv[p.nvs_key][1] = NvsType(p)
    /\ p.type = "string" => Len(kv[p.nvs_key][2]) + 1 <= p.max_length + 1

\* the field after a successful get
NvsLoaded(old, e, p) ==
    CASE p.type = "bool"   -> e[2] # 0
      [] p.type = "string" -> [j \in 1..Len(old) |->
                                 IF j <= Len(e[2]) THEN e[2][j]
                                 ELSE IF j = Len(e[2]) + 1 THEN NUL ELSE old[j]]
      [] OTHER             -> e[2]

\* faulty variant: the loop ends at the first key that cannot be read
RECURSIVE LoadParamsStopEarly(_, _, _, _)
LoadParamsStopEarly(i, c, kv, loaded) ==
    IF i > NParams THEN [ret |-> loaded, cfg |-> c]
    ELSE IF NvsGetOk(kv, Params[i])
         THEN LoadParamsStopEarly(i + 1,
                         [c EXCEPT ![i] = NvsLoaded(c[i], kv[Params[i].nvs_key], Params[i])],
                         kv, loaded + 1)
         ELSE [ret |-> loaded, cfg |-> c]

\* the load statements emitted for the parameter list params, from
\* parameter i on
RECURSIVE LoadParamsOf(_, _, _, _, _)
LoadParamsOf(params, i, c, kv, loaded) ==
    IF i > Len(params) THEN [ret |-> loaded, cfg |-> c]
    ELSE IF NvsGetOk(kv, params[i])
         THEN LoadParamsOf(params, i + 1,
                           [c EXCEPT ![i] = NvsLoaded(c[i], kv[params[i].nvs_key], params[i])],
                           kv, loaded + 1)
         ELSE LoadParamsOf(params, i + 1, c, kv, loaded)

LoadParams(i, c, kv, loaded) == LoadParamsOf(Params, i, c, kv, loaded)

\* faulty variant: a namespace that does not exist is an error
config_load_from_nvs_strict(c, store) ==
    IF store.open # "ok" THEN [ret |-> -1, cfg |-> c]
    ELSE LoadParams(1, c, store.kv, 0)

\* config_load_from_nvs(): the fields are stored, the generation counter is
\* not touched
config_load_from_nvs(c, store) ==
    IF store.open = "not_found" THEN [ret |-> 0, cfg |-> c]
    ELSE IF store.open # "ok" THEN [ret |-> -1, cfg |-> c]
    ELSE LoadParams(1, c, store.kv, 0)

NvsEmpty == [k \in NvsKeys |-> NoEntry]

\* what the flash may hold when the firmware starts
NvsImages ==
    { [open |-> "not_found", kv |-> NvsEmpty],
      [open |-> "fail",      kv |-> NvsEmpty],
      [open |-> "ok",        kv |-> NvsEmpty],
      [open |-> "ok",        kv |-> [NvsEmpty EXCEPT !["wpm"] = <<"u8", 30>>,
                                                     !["callsign"] = <<"str", <<"x">> >>,
                                                     !["hw_timeout"] = <<"u16", 7>>]],
      \* entries written by another firmware version, or damaged
      [open |-> "ok",        kv |-> [NvsEmpty EXCEPT !["wpm"] = <<"u8", 200>>,
                                                     !["hw_mode"] = <<"u8", 9>>]] }

(***************************************************************************)
(* config_nvs.c: bulk save, single-parameter load and save                 *)
(***************************************************************************)
\* the result of bulk load and bulk save when the store cannot be used
NVS_FATAL == -1

\* the value nvs_set_<type> is handed for field i of configuration c
NvsSavedOf(p, field) ==
    CASE p.type = "bool"   -> IF field THEN 1 ELSE 0
      [] p.type = "string" -> CString(field)
      [] OTHER             -> field

NvsSaved(c, i) == NvsSavedOf(Params[i], c[i])

\* the save loop from parameter i on: failing is the set of keys whose
\* nvs_set_<type> does not return ESP_OK
RECURSIVE SaveParamsOf(_, _, _, _, _, _)
SaveParamsOf(params, i, c, kv, failing, saved) ==
    IF i > Len(params) THEN [ret |-> saved, kv |-> kv]
    ELSE IF params[i].nvs_key \notin failing
         THEN SaveParamsOf(params, i + 1, c,
                           [kv EXCEPT ![params[i].nvs_key] =
                                          << NvsType(params[i]), NvsSavedOf(params[i], c[i]) >>],
                           failing, saved + 1)
         ELSE SaveParamsOf(params, i + 1, c, kv, failing, saved)

SaveParams(i, c, kv, failing, saved) == SaveParamsOf(Params, i, c, kv, failing, saved)

\* faulty variant: the result of nvs_commit is ignored
config_save_to_nvs_nocommit(c, store, failing, commit, flushed) ==
    IF store.open = "fail" THEN [ret |-> NVS_FATAL, store |-> store]
    ELSE LET r == SaveParams(1, c, store.kv, failing, 0)
         IN  [ret   |-> r.ret,
              store |-> [open |-> "ok",
                         kv   |-> IF commit = "ok" \/ flushed THEN r.kv ELSE store.kv]]

\* config_save_to_nvs(): nvs_open(NVS_READWRITE) creates a missing namespace;
\* commit is the result of nvs_commit, and after a failed commit the flash
\* holds the written values or not (flushed)
config_save_to_nvs(c, store, failing, commit, flushed) ==
    IF store.open = "fail" THEN [ret |-> NVS_FATAL, store |-> store]
    ELSE LET r == SaveParams(1, c, store.kv, failing, 0)
         IN  [ret   |-> IF commit = "ok" THEN r.ret ELSE NVS_FATAL,
              store |-> [open |-> "ok",
                         kv   |-> IF commit = "ok" \/ flushed THEN r.kv ELSE store.kv]]

\* config_load_param(name) of config_nvs.c
config_load_param(name) == "ESP_ERR_NOT_SUPPORTED"

\* config_save_param(name) of config_nvs.c
config_save_param(name) == "ESP_ERR_NOT_SUPPORTED"

\* load_param(name) of config_nvs.rs: one match arm per parameter name
load_param(name) ==
    IF \E i \in PIdx : Params[i].name = name THEN "Ok" ELSE "UnknownParameter"

\* save_param(name) of config_nvs.rs
save_param(name) ==
    IF \E i \in PIdx : Params[i].name = name THEN "Ok" ELSE "UnknownParameter"

(***************************************************************************)
(* The console task: one call at a time                                    *)
(***************************************************************************)
MaxOps == 2

S_nosuch == <<"n","o","s","u","c","h">>

\* names handed to get and set: every descriptor's full path, bare names,
\* a schema path with its subfamily, and names of no parameter
Names ==
    { CONSOLE_PARAMS[i].full_path : i \in PIdx }
    \cup { S_wpm, S_pitch, Join(S_keyer, Join(S_tone, S_pitch)), S_nosuch, <<>> }

\* value strings tried on every name
CommonValues ==
    { <<>>, <<"0">>, <<"-","1">>, <<"a","b","c">>, <<"1","2","x">>, S_true, <<"c","d","e">> }

U32Inc(a) == IF a[2] = Limb - 1 THEN << a[1] + 1, 0 >> ELSE << a[1], a[2] + 1 >>
U32Dec(a) == IF a[2] = 0 THEN << a[1] - 1, Limb - 1 >> ELSE << a[1], a[2] - 1 >>

\* the decimal texts of min - 1, min, max and max + 1 of descriptor i
BoundaryValues(i) ==
    LET d == CONSOLE_PARAMS[i]
    IN  { DecimalU32(d.min), DecimalU32(d.max) }
        \cup (IF d.min # U32(0) THEN { DecimalU32(U32Dec(d.min)) } ELSE {})
        \cup (IF d.max # ULONG_MAX THEN { DecimalU32(U32Inc(d.max)) }
              ELSE { <<"4","2","9","4","9","6","7","2","9","6">> })

\* texts tried on the bool parameter: every accepted token, and texts that
\* differ from one in case, by a space or by being another number
BoolValues ==
    { S_true, <<"1">>, S_on, S_yes, S_false, <<"0">>, S_off, S_no,
      <<"T","r","u","e">>, <<"O","N">>, <<"Y","e","s">>, <<"F","A","L","S","E">>,
      <<"2">>, <<"y">>, <<"n","o"," ">>, <<" ","1">>, <<>> }

\* the (name, value) pairs handed to config_set_param_str
SetInputs ==
    (Names \X CommonValues)
    \cup UNION { { << CONSOLE_PARAMS[i].full_path, v >> : v \in BoundaryValues(i) } : i \in PIdx }
    \cup { << Join(S_keyer, S_wpm), <<"-","4","2","9","4","9","6","7","2","9","1">> >>,
           << Join(S_keyer, S_wpm), <<"3","0","0">> >>,
           << Join(S_hardware, S_ptt), S_off >> }
    \cup { << Join(S_hardware, S_ptt), v >> : v \in BoolValues }
    \cup { << Join(S_hardware, S_retries), <<"3","0","0">> >>,
           << Join(S_hardware, S_retries), <<"2","5","5">> >> }

\* patterns handed to config_foreach_matching
Patterns ==
    { Star, <<"*","*">>,
      S_keyer \o <<".","*">>, S_keyer \o <<".","*","*">>,
      S_leds \o <<".","*">>, S_hardware \o <<".","*">>, S_hardware \o <<".","*","*">>,
      S_hw \o <<".","*">>, S_hw \o <<".","*","*">>, S_k \o <<".","*">>,
      Join(S_keyer, S_tone) \o <<".","*">>,
      S_nosuch, S_nosuch \o <<".","*">>,
      <<"l","e","d",".","*","*">> }
    \cup { Params[i].full_path : i \in PIdx }
    \cup { CONSOLE_PARAMS[i].full_path : i \in PIdx }
    \cup { S_wpm }

BufLens == {0, 16}

Call(op, name, value, ret, out) ==
    [op |-> op, name |-> name, value |-> value, ret |-> ret, out |-> out]

Enter ==
    /\ nops < MaxOps
    /\ nops' = nops + 1
    /\ pre' = [cfg |-> cfg, generation |-> generation, nvs |-> nvs]
    /\ UNCHANGED << wr, rd, hist, run >>

ConsoleSet(name, value) ==
    LET r == config_set_param_str(cfg, generation, name, value)
    IN  /\ Enter
        /\ cfg' = r.cfg
        /\ generation' = r.generation
        /\ nsets' = IF r.ret = RET_OK THEN nsets + 1 ELSE nsets
        /\ last' = Call("set", name, value, r.ret, <<>>)
        /\ UNCHANGED nvs

ConsoleGet(name, len) ==
    LET r == config_get_param_str(cfg, name, len)
    IN  /\ Enter
        /\ last' = Call("get", name, <<>>, r.ret, r.out)
        /\ UNCHANGED << cfg, generation, nsets, nvs >>

ForeachMatching(pattern) ==
    /\ Enter
    /\ last' = Call("foreach", pattern, <<>>, 0, config_foreach_matching(pattern))
    /\ UNCHANGED << cfg, generation, nsets, nvs >>

LoadFromNvs ==
    LET r == config_load_from_nvs(cfg, nvs)
    IN  /\ Enter
        /\ cfg' = r.cfg
        /\ last' = Call("load", <<>>, <<>>, r.ret, <<>>)
        /\ UNCHANGED << generation, nsets, nvs >>

NoCall == Call("none", <<>>, <<>>, 0, <<>>)

\* no generator script is running
NoRun == [script |-> "none"]

WrIdle == [pc |-> "idle", val |-> <<>>, i |-> 0]
RdIdle == [pc |-> "idle", fields |-> <<>>, k |-> 0, g1 |-> 0, got |-> <<>>, buf |-> <<>>,
           obs |-> <<>>, accepted |-> FALSE]

InitWith(image, threads, history) ==
    /\ cfg = config_init_defaults
    /\ generation = 0
    /\ nvs = image
    /\ last = NoCall
    /\ pre = [cfg |-> config_init_defaults, generation |-> 0, nvs |-> image]
    /\ nops = 0
    /\ nsets = 0
    /\ wr = threads
    /\ rd = RdIdle
    /\ hist = history
    /\ run = NoRun

Init == \E image \in NvsImages : InitWith(image, <<>>, [on |-> FALSE])

Next ==
    \/ \E inp \in SetInputs : ConsoleSet(inp[1], inp[2])
    \/ \E name \in Names, len \in BufLens : ConsoleGet(name, len)
    \/ \E pattern \in Patterns : ForeachMatching(pattern)
    \/ LoadFromNvs

Spec == Init /\ [][Next]_vars

(***************************************************************************)
(* The persistence task: bulk and single-parameter load and save           *)
(***************************************************************************)
\* what the flash may hold when the persistence calls are made
NvsStoreImages ==
    NvsImages
    \cup { [open |-> "ok", kv |-> [NvsEmpty EXCEPT !["pitch"] = <<"u16", 700>>,
                                                  !["hw_timeout"] = <<"u32", U32(7)>>,
                                                  !["hw_ptt"] = <<"u8", 1>>,
                                                  !["callsign"] = <<"str", <<"x","y","z">> >>]],
            [open |-> "fail", kv |-> [NvsEmpty EXCEPT !["wpm"] = <<"u8", 30>>]] }

\* the sets of keys whose write fails during one bulk save
FailingKeySets == { {}, {"wpm"}, {"led_bright", "callsign"}, NvsKeys }

\* sets made through the console before the persistence calls
NvsSetInputs ==
    { << Join(S_keyer, S_wpm), <<"2","5">> >>,
      << Join(S_hardware, S_callsign), <<"q">> >>,
      << Join(S_hardware, S_ptt), S_on >> }

\* names handed to the single-parameter calls
ParamNames ==
    { Params[i].full_path : i \in PIdx } \cup { S_wpm, S_nosuch }

SaveToNvs(failing, commit, flushed) ==
    LET r == config_save_to_nvs(cfg, nvs, failing, commit, flushed)
    IN  /\ Enter
        /\ nvs' = r.store
        /\ last' = [op |-> "save", name |-> <<>>, value |-> <<>>, ret |-> r.ret, out |-> <<>>,
                    failing |-> failing, commit |-> commit]
        /\ UNCHANGED << cfg, generation, nsets >>

\* the single-parameter calls change neither the configuration nor the store
LoadParam(impl, name) ==
    /\ Enter
    /\ last' = Call("load_param", name, <<>>,
                    IF impl = "c" THEN config_load_param(name) ELSE load_param(name), impl)
    /\ UNCHANGED << cfg, generation, nsets, nvs >>

SaveParam(impl, name) ==
    /\ Enter
    /\ last' = Call("save_param", name, <<>>,
                    IF impl = "c" THEN config_save_param(name) ELSE save_param(name), impl)
    /\ UNCHANGED << cfg, generation, nsets, nvs >>

InitNvs == \E image \in NvsStoreImages : InitWith(image, <<>>, [on |-> FALSE])

NextNvs ==
    \/ \E inp \in NvsSetInputs : ConsoleSet(inp[1], inp[2])
    \/ LoadFromNvs
    \/ \E failing \in FailingKeySets, commit \in {"ok", "fail"}, flushed \in BOOLEAN :
          SaveToNvs(failing, commit, flushed)
    \/ \E impl \in {"c", "rs"}, name \in ParamNames : LoadParam(impl, name)
    \/ \E impl \in {"c", "rs"}, name \in ParamNames : SaveParam(impl, name)

SpecNvs == InitNvs /\ [][NextNvs]_vars

(***************************************************************************)
(* Threads: setters running concurrently with a reader                     *)
(***************************************************************************)
F_wpm        == config_find_param(Join(S_keyer, S_wpm))
F_brightness == config_find_param(Join(S_leds, S_brightness))
F_callsign   == config_find_param(Join(S_hardware, S_callsign))

\* the field each writer thread owns (one writer per field)
WriterField == << F_wpm, F_brightness, F_callsign >>

\* the values a writer passes to CONFIG_SET_<NAME>(v) / set_<name>(v)
WriterValues(w) ==
    CASE WriterField[w] = F_wpm        -> { 30 }
      [] WriterField[w] = F_brightness -> { 70 }
      [] OTHER                         -> { <<"c","d">>, <<"e","f">> }

\* sets begun and not yet completed
Active == Cardinality({ w \in DOMAIN wr : wr[w].pc # "idle" })

\* the history kept for the properties: every configuration memory has held,
\* per field the complete values given to it (the default first), and per
\* field the number of its sets whose bump has been executed
HistInit ==
    [on |-> TRUE, held |-> { config_init_defaults },
     vals |-> [i \in PIdx |-> << get_fn(config_init_defaults, i) >>],
     pub |-> [i \in PIdx |-> 0]]

Held(h, c) == IF h.on THEN [h EXCEPT !.held = @ \cup { c }] ELSE h
Given(h, f, v) == IF h.on THEN [h EXCEPT !.vals[f] = Append(@, v)] ELSE h
Published(h, f) == IF h.on THEN [h EXCEPT !.pub[f] = @ + 1] ELSE h

\* byte j of strncpy(dst, v, n)
CopiedByte(v, j) == IF j <= Len(v) THEN v[j] ELSE NUL

\* the setter's store.  An atomic field is stored in one step
\* (atomic_store_explicit, relaxed); a string field is a plain char array
\* that strncpy fills byte after byte, of which this is the first.
W_Store(w, v, limit) ==
    LET f == WriterField[w]
        n == Params[f].max_length
        c == IF Params[f].type = "string"
             THEN [cfg EXCEPT ![f][1] = CopiedByte(v, 1)]
             ELSE StoreField(cfg, f, v)
    IN  /\ wr[w].pc = "idle"
        /\ nsets + Active < limit
        /\ cfg' = c
        /\ wr' = [wr EXCEPT ![w] =
                    IF Params[f].type = "string"
                    THEN [pc |-> IF n > 1 THEN "copy" ELSE "term", val |-> v, i |-> 2]
                    ELSE [pc |-> "bump", val |-> v, i |-> 0]]
        /\ hist' = Held(Given(hist, f, v), c)
        /\ UNCHANGED << generation, nvs, last, pre, nops, nsets, rd, run >>

\* strncpy: the next byte
W_Copy(w) ==
    LET f == WriterField[w]
        j == wr[w].i
        c == [cfg EXCEPT ![f][j] = CopiedByte(wr[w].val, j)]
    IN  /\ wr[w].pc = "copy"
        /\ cfg' = c
        /\ wr' = [wr EXCEPT ![w].i = j + 1,
                            ![w].pc = IF j + 1 > Params[f].max_length THEN "term" ELSE "copy"]
        /\ hist' = Held(hist, c)
        /\ UNCHANGED << generation, nvs, last, pre, nops, nsets, rd, run >>

\* field[max_len] = '\0'
W_Term(w) ==
    LET f == WriterField[w]
        c == [cfg EXCEPT ![f][Params[f].max_length + 1] = NUL]
    IN  /\ wr[w].pc = "term"
        /\ cfg' = c
        /\ wr' = [wr EXCEPT ![w].pc = "bump"]
        /\ hist' = Held(hist, c)
        /\ UNCHANGED << generation, nvs, last, pre, nops, nsets, rd, run >>

\* config_bump_generation(&g_config): one atomic read-modify-write
W_Bump(w) ==
    /\ wr[w].pc = "bump"
    /\ generation' = bump_generation(generation)
    /\ nsets' = nsets + 1
    /\ wr' = [wr EXCEPT ![w] = WrIdle]
    /\ hist' = Published(hist, WriterField[w])
    /\ UNCHANGED << cfg, nvs, last, pre, nops, rd, run >>

\* the field lists a reader takes a snapshot of
ReadSets == { << F_wpm, F_brightness >>, << F_callsign >>, << F_wpm >> }

\* the reader loads the generation counter (acquire) and starts reading
R_Begin(fs) ==
    /\ rd.pc \in {"idle", "done"}
    /\ rd' = [pc |-> "read", fields |-> fs, k |-> 1, g1 |-> generation, got |-> <<>>,
              buf |-> <<>>, obs |-> hist.pub, accepted |-> FALSE]
    /\ UNCHANGED << cfg, generation, nvs, last, pre, nops, nsets, wr, hist, run >>

\* the reader reads its next field: CONFIG_GET_<NAME>() is one relaxed atomic
\* load, or for a string the pointer to the char array, whose bytes are then
\* read one after the other up to the terminator
R_Read ==
    LET f == rd.fields[rd.k]
        b == cfg[f][Len(rd.buf) + 1]
        fin(v) == [rd EXCEPT !.got = Append(@, v), !.buf = <<>>, !.k = @ + 1,
                             !.pc = IF rd.k = Len(rd.fields) THEN "check" ELSE "read"]
    IN  /\ rd.pc = "read"
        /\ rd' = IF Params[f].type # "string" THEN fin(cfg[f])
                 ELSE IF b = NUL THEN fin(rd.buf)
                 ELSE [rd EXCEPT !.buf = Append(@, b)]
        /\ UNCHANGED << cfg, generation, nvs, last, pre, nops, nsets, wr, hist, run >>

\* the reader loads the counter again: equal values accept the snapshot, a
\* different value makes it start over
R_Check ==
    /\ rd.pc = "check"
    /\ rd' = IF generation = rd.g1
             THEN [rd EXCEPT !.pc = "done", !.accepted = TRUE]
             ELSE RdIdle
    /\ UNCHANGED << cfg, generation, nvs, last, pre, nops, nsets, wr, hist, run >>

MaxConcSets == 3

InitConc ==
    InitWith([open |-> "not_found", kv |-> NvsEmpty],
             [w \in 1..Len(WriterField) |-> WrIdle], HistInit)

NextConc ==
    \/ \E w \in DOMAIN wr : \E v \in WriterValues(w) : W_Store(w, v, MaxConcSets)
    \/ \E w \in DOMAIN wr : W_Copy(w)
    \/ \E w \in DOMAIN wr : W_Term(w)
    \/ \E w \in DOMAIN wr : W_Bump(w)
    \/ \E fs \in ReadSets : R_Begin(fs)
    \/ R_Read
    \/ R_Check

SpecConc == InitConc /\ [][NextConc]_vars

\* two threads setting atomic fields over and over, long enough for the
\* 16-bit counter to wrap around
MaxGenSets == 65538

InitGen ==
    InitWith([open |-> "not_found", kv |-> NvsEmpty],
             [w \in 1..2 |-> WrIdle], [on |-> FALSE])

NextGen ==
    \/ \E w \in DOMAIN wr : \E v \in WriterValues(w) : W_Store(w, v, MaxGenSets)
    \/ \E w \in DOMAIN wr : W_Bump(w)

SpecGen == InitGen /\ [][NextGen]_vars

(***************************************************************************)
(* gen_config_c.py: a run of the generator                                 *)
(***************************************************************************)
LowerCase == <<"a","b","c","d","e","f","g","h","i","j","k","l","m",
               "n","o","p","q","r","s","t","u","v","w","x","y","z">>
UpperCase == <<"A","B","C","D","E","F","G","H","I","J","K","L","M",
               "N","O","P","Q","R","S","T","U","V","W","X","Y","Z">>

\* str.upper()
Upper(str) ==
    [j \in 1..Len(str) |->
        IF \E k \in 1..Len(LowerCase) : LowerCase[k] = str[j]
        THEN UpperCase[CHOOSE k \in 1..Len(LowerCase) : LowerCase[k] = str[j]]
        ELSE str[j]]

\* name_counts[n]: the number of parameters whose upper-cased name is n
NameCount(params, n) == Cardinality({ i \in 1..Len(params) : Upper(params[i].name) = n })

\* faulty variant: the family is never prefixed
MacroUpperBare(params, i) == Upper(params[i].name)

\* macro_upper of parameter i: the identifier behind CONFIG_GET_ / CONFIG_SET_
MacroUpper(params, i) ==
    IF params[i].family # <<>> /\ NameCount(params, Upper(params[i].name)) > 1
    THEN Upper(params[i].family) \o <<"_">> \o Upper(params[i].name)
    ELSE Upper(params[i].name)

\* the number a decimal literal denotes
RECURSIVE ParseDec(_)
ParseDec(t) ==
    IF t = <<>> THEN 0 ELSE ParseDec(SubSeq(t, 1, Len(t) - 1)) * 10 + DigitVal(t[Len(t)])

\* the character a C escape sequence \c denotes
EscChar(c) ==
    CASE c = "n" -> "LF"
      [] c = "t" -> "TAB"
      [] c = "0" -> NUL
      [] OTHER   -> c

\* the characters the body of a C string literal denotes
RECURSIVE CStringLiteral(_)
CStringLiteral(t) ==
    IF t = <<>> THEN <<>>
    ELSE IF Head(t) = "\\" /\ Len(t) >= 2
         THEN << EscChar(t[2]) >> \o CStringLiteral(SubSeq(t, 3, Len(t)))
         ELSE << Head(t) >> \o CStringLiteral(Tail(t))

\* what the statement config_init_defaults holds for parameter p stores,
\* given the literal the generator emitted for it
CompiledInit(p, literal) ==
    CASE p.type = "bool"   -> literal = S_true
      [] p.type \in {"u8", "enum"} -> ParseDec(literal) % 2^8
      [] p.type = "u16"    -> ParseDec(literal) % 2^16
      [] p.type = "string" -> Strncpy(ZeroBuf(p.max_length + 1),
                                      CStringLiteral(SubSeq(literal, 2, Len(literal) - 1)),
                                      p.max_length)
      [] OTHER             -> U32(ParseDec(literal))

\* get_default_value(param)[0]: the C literal of the default
get_default_value(p) ==
    CASE p.type = "bool"   -> IF p.default THEN S_true ELSE S_false
      [] p.type = "enum"   -> Decimal(IndexOf(p.enum_values, p.default))
      [] p.type = "string" -> <<"\"">> \o p.default \o <<"\"">>
      [] OTHER             -> Decimal(p.default)

\* the exception generate_config_h raises for a parameter list before it
\* writes config.h, "none" when it raises none
ErrConfigH(params) ==
    IF \E i \in 1..Len(params) : "gui" \in params[i].lacks \/ "type" \in params[i].lacks
    THEN "KeyError"
    ELSE "none"

\* get_default_value raises for parameter p
DefaultRaises(p) ==
    CASE p.type = "string" -> FALSE
      [] p.type = "enum"   -> \/ "enum_values" \in p.lacks
                              \/ "default" \in p.lacks
                              \/ \A j \in 1..Len(p.enum_values) : p.enum_values[j] # p.default
      [] OTHER             -> "default" \in p.lacks

\* the exception generate_config_c raises before it writes config.c
ErrConfigC(params) ==
    IF \E i \in 1..Len(params) : DefaultRaises(params[i])
    THEN LET p == params[CHOOSE i \in 1..Len(params) :
                      DefaultRaises(params[i]) /\ \A j \in 1..(i-1) : ~DefaultRaises(params[j])]
         IN  IF (p.type = "enum" /\ "enum_values" \in p.lacks) \/ "default" \in p.lacks
             THEN "KeyError"
             ELSE "ValueError"
    ELSE "none"

\* the exception generate_config_nvs_h raises before it writes config_nvs.h
ErrNvsH(params) ==
    IF \E i \in 1..Len(params) : "nvs_key" \in params[i].lacks THEN "KeyError"
    ELSE "none"

\* main for a version 1 document: params = schema['parameters'], the
\* entries as the document has them, without family, subfamily or full_path
V1Params(schema) ==
    [i \in 1..Len(schema.parameters) |->
        [Annotate(schema.parameters[i], <<>>, <<>>, <<>>)
            EXCEPT !.lacks = schema.parameters[i].lacks \cup {"full_path"}]]

\* main: the parameter list of either schema version
Normalize(schema) ==
    IF schema.version = 2 THEN parse_v2_schema(schema) ELSE V1Params(schema)

\* the exception generate_config_schema_json raises before it writes
\* config_schema.h: it reads param['full_path']
ErrSchemaJson(params) ==
    IF \E i \in 1..Len(params) : "full_path" \in params[i].lacks THEN "KeyError"
    ELSE "none"

\* the calls of main after the schema has been parsed, in order: the
\* artifact each one writes and the exception it raises before writing
Stages(params) == <<
    [file |-> "config.h",         err |-> ErrConfigH(params)],
    [file |-> "config.c",         err |-> ErrConfigC(params)],
    [file |-> "config_meta.h",    err |-> "none"],
    [file |-> "config_nvs.h",     err |-> ErrNvsH(params)],
    [file |-> "config_nvs.c",     err |-> "none"],
    [file |-> "config_console.h", err |-> "none"],
    [file |-> "config_console.c", err |-> "none"],
    [file |-> "config_schema.h",  err |-> ErrSchemaJson(params)] >>

NStages == 8

Fam(name, order, params, subs) ==
    [name |-> name, order |-> order, aliases |-> <<>>, parameters |-> params,
     subfamilies |-> subs]

Sub(name, composite, params) ==
    [name |-> name, is_composite |-> composite, parameters |-> params]

S_lcd   == <<"l","c","d">>
S_Wpm   == <<"W","p","m">>
S_leds_brightness == S_leds \o <<"_">> \o S_brightness

P_wpm    == MkParam(S_wpm, "u8", 20, <<5, 60>>, <<>>, 0, "wpm")
P_pitch  == MkParam(S_pitch, "u16", 600, <<400, 800>>, <<>>, 0, "pitch")
P_bright == MkParam(S_brightness, "u8", 50, <<0, 100>>, <<>>, 0, "led_bright")
P_mode(default, values) == MkParam(S_mode, "enum", default, NoRange, values, 0, "hw_mode")

OneFamily(params) == [version |-> 2, families |-> << Fam(S_keyer, 1, params, <<>>) >>]

S_filter == <<"f","i","l","t","e","r">>

\* alias01 .. alias09
LongAliases == [i \in 1..9 |-> <<"a","l","i","a","s","0", DigitChars[i + 1]>>]

\* schemas handed to the generator: well-formed ones and ones with a defect
SchemaInputs == {
    Schema,
    \* brightness in two families
    [version |-> 2, families |-> << Fam(S_leds, 1, << P_bright >>, <<>>),
                                    Fam(S_lcd, 2, << [P_bright EXCEPT !.nvs_key = "lcd_bright"],
                                                     P_wpm >>, <<>>) >>],
    \* brightness in two families and leds_brightness in a third
    [version |-> 2, families |-> << Fam(S_leds, 1, << P_bright >>, <<>>),
                                    Fam(S_lcd, 2, << [P_bright EXCEPT !.nvs_key = "lcd_bright"] >>,
                                        <<>>),
                                    Fam(S_keyer, 3,
                                        << [P_bright EXCEPT !.name = S_leds_brightness,
                                                            !.nvs_key = "k_bright"] >>, <<>>) >>],
    \* pitch as a direct parameter and in a subfamily of the same family
    [version |-> 2, families |-> << Fam(S_keyer, 1, << P_pitch >>,
                                        << Sub(S_tone, FALSE,
                                               << [P_pitch EXCEPT !.nvs_key = "tpitch"] >>) >>) >>],
    \* names that differ by letter case
    OneFamily(<< P_wpm, [P_wpm EXCEPT !.name = S_Wpm, !.nvs_key = "wpm2"] >>),
    \* a composite subfamily
    [version |-> 2, families |-> << Fam(S_keyer, 1, << P_wpm >>,
                                        << Sub(S_tone, TRUE, << P_pitch >>) >>) >>],
    \* required fields missing
    OneFamily(<< P_pitch, [P_wpm EXCEPT !.lacks = {"default"}] >>),
    OneFamily(<< P_pitch, [P_wpm EXCEPT !.lacks = {"type"}] >>),
    OneFamily(<< P_pitch, [P_wpm EXCEPT !.lacks = {"nvs_key"}] >>),
    OneFamily(<< P_pitch, [P_wpm EXCEPT !.lacks = {"gui"}] >>),
    OneFamily(<< P_wpm, [P_mode("A", <<>>) EXCEPT !.lacks = {"enum_values"}] >>),
    \* defaults outside the range and outside the enum set
    OneFamily(<< P_pitch, [P_wpm EXCEPT !.default = 200] >>),
    OneFamily(<< P_pitch, [P_wpm EXCEPT !.default = 4] >>),
    OneFamily(<< P_wpm, P_mode("D", <<"A","B","C">>) >>),
    \* an alias of the first family that is the name of the second
    [version |-> 2, families |-> << [Fam(S_keyer, 1, << P_wpm >>, <<>>) EXCEPT !.aliases = << S_hw >>],
                                    Fam(S_hw, 2, << P_bright >>, <<>>) >>],
    \* nine aliases of seven characters: 71 characters when joined
    [version |-> 2, families |-> << [Fam(S_keyer, 1, << P_wpm >>, <<>>) EXCEPT !.aliases = LongAliases] >>],
    \* families declared against their order
    [version |-> 2, families |-> << [Fam(S_leds, 2, << P_bright >>, <<>>) EXCEPT !.aliases = << S_k >>],
                                    [Fam(S_keyer, 1, << P_wpm >>, <<>>) EXCEPT !.aliases = << S_k, S_hw >>] >>],
    \* pitch in two subfamilies of one family
    [version |-> 2, families |-> << Fam(S_keyer, 1, << P_wpm >>,
                                        << Sub(S_tone, FALSE, << P_pitch >>),
                                           Sub(S_filter, FALSE,
                                               << [P_pitch EXCEPT !.nvs_key = "f_pitch",
                                                                  !.default = 500] >>) >>) >>],
    \* two parameters given the same nvs_key
    [version |-> 2, families |-> << Fam(S_leds, 1, << P_bright >>, <<>>),
                                    Fam(S_lcd, 2, << [P_bright EXCEPT !.default = 70] >>, <<>>) >>],
    \* a flat version 1 document
    [version |-> 1, parameters |-> << P_wpm, P_pitch >>],
    \* string defaults: one that fits, one longer than max_length, one with a
    \* backslash
    OneFamily(<< P_wpm, MkParam(S_callsign, "string", <<"a","b">>, NoRange, <<>>, 2, "callsign"),
                 MkParam(S_ptt, "bool", TRUE, NoRange, <<>>, 0, "hw_ptt"),
                 MkParam(S_timeout, "u32", 1000, NoRange, <<>>, 0, "hw_timeout") >>),
    OneFamily(<< P_wpm, MkParam(S_callsign, "string", <<"a","b","c">>, NoRange, <<>>, 2,
                                "callsign") >>),
    OneFamily(<< P_wpm, MkParam(S_callsign, "string", <<"a","\\","n">>, NoRange, <<>>, 4,
                                "callsign") >>),
    \* enum defaults at every position, and a value declared twice
    OneFamily(<< P_wpm, P_mode("A", <<"A","B","C">>) >>),
    OneFamily(<< P_wpm, P_mode("C", <<"A","B","C">>) >>),
    OneFamily(<< P_wpm, P_mode("B", <<"A","B","B">>) >>) }

\* parse_v2_schema(schema)[1]: the families sorted by order, families of
\* equal order in document order
RECURSIVE SortByOrder(_)
SortByOrder(fams) ==
    IF fams = <<>> THEN <<>>
    ELSE LET k == CHOOSE i \in 1..Len(fams) :
                     \A j \in 1..Len(fams) :
                        \/ fams[i].order < fams[j].order
                        \/ (fams[i].order = fams[j].order /\ i <= j)
         IN  << fams[k] >> \o SortByOrder(SubSeq(fams, 1, k - 1) \o SubSeq(fams, k + 1, Len(fams)))

\* ','.join(aliases)
RECURSIVE JoinComma(_)
JoinComma(ss) ==
    IF ss = <<>> THEN <<>>
    ELSE IF Len(ss) = 1 THEN ss[1]
    ELSE ss[1] \o <<",">> \o JoinComma(Tail(ss))

\* the CONSOLE_FAMILIES array generate_config_console_c emits; none for a
\* version 1 document (families = None)
ConsoleFamilyTable(schema) ==
    IF schema.version # 2 THEN <<>>
    ELSE LET fams == SortByOrder(schema.families)
         IN  [i \in 1..Len(fams) |-> [name |-> fams[i].name, aliases |-> JoinComma(fams[i].aliases)]]

\* char aliases_copy[64]
ALIASES_SIZE == 64

\* the tokens strtok(s, ",") yields one after the other
RECURSIVE Strtok(_)
Strtok(t) ==
    IF t = <<>> THEN <<>>
    ELSE IF Head(t) = "," THEN Strtok(Tail(t))
    ELSE LET c == StrChr(t, ",")
         IN  IF c = 0 THEN << t >>
             ELSE << SubSeq(t, 1, c - 1) >> \o Strtok(StrFrom(t, c + 1))

\* the family's aliases as config_find_family sees them: strncpy of at most
\* sizeof(aliases_copy) - 1 characters, then strtok
AliasTokens(aliases) ==
    Strtok(SubSeq(aliases, 1, IF Len(aliases) < ALIASES_SIZE - 1 THEN Len(aliases)
                              ELSE ALIASES_SIZE - 1))

\* one pass of config_find_family's loop body: the name, then each alias
FamilyMatches(f, name) ==
    \/ f.name = name
    \/ \E a \in 1..Len(AliasTokens(f.aliases)) : AliasTokens(f.aliases)[a] = name

\* config_find_family(name) over a CONSOLE_FAMILIES array: the 1-based index
\* of the first family whose name or alias matches, 0 for NULL
config_find_family(table, name) ==
    IF \E i \in 1..Len(table) : FamilyMatches(table[i], name)
    THEN CHOOSE i \in 1..Len(table) :
            /\ FamilyMatches(table[i], name)
            /\ \A j \in 1..(i - 1) : ~FamilyMatches(table[j], name)
    ELSE 0

\* names looked up in the family table a run has emitted
FamilyLookupNames(schema) ==
    { schema.families[k].name : k \in 1..Len(schema.families) }
    \cup UNION { { schema.families[k].aliases[a] : a \in 1..Len(schema.families[k].aliases) } :
                 k \in 1..Len(schema.families) }
    \cup { S_nosuch }

\* names looked up in the descriptor table a run has emitted
LookupNames(table) ==
    { table[i].full_path : i \in 1..Len(table) }
    \cup { table[i].name : i \in 1..Len(table) }
    \cup { S_nosuch }

\* main() has read the document; nothing is parsed or written yet
RunStart(schema) ==
    [script |-> "gen_config_c", schema |-> schema, pc |-> 0, status |-> "running",
     error |-> "none", params |-> <<>>, written |-> <<>>, macros |-> <<>>,
     defaults |-> <<>>, table |-> <<>>, query |-> <<>>, found |-> 0, lookups |-> 0,
     boot |-> <<>>, families |-> <<>>, fquery |-> <<>>, ffound |-> 0, flookups |-> 0,
     phase |-> "none", store |-> <<>>, saved |-> <<>>, loadret |-> 0]

\* main: params, families = parse_v2_schema(schema)
ParseSchema ==
    /\ run.script = "gen_config_c"
    /\ run.status = "running"
    /\ run.pc = 0
    /\ run' = [run EXCEPT !.pc = 1, !.params = Normalize(run.schema)]
    /\ UNCHANGED fwVars

\* main: the next generate_* call: it raises, or it writes its artifact
Generate ==
    /\ run.script = "gen_config_c"
    /\ run.status = "running"
    /\ run.pc \in 1..NStages
    /\ LET st == Stages(run.params)[run.pc]
       IN  IF st.err # "none"
           THEN run' = [run EXCEPT !.status = "error", !.error = st.err]
           ELSE run' = [run EXCEPT
                  !.pc = run.pc + 1,
                  !.status = IF run.pc = NStages THEN "done" ELSE "running",
                  !.written = Append(run.written, st.file),
                  !.macros = IF st.file = "config.h"
                             THEN [i \in 1..Len(run.params) |-> MacroUpper(run.params, i)]
                             ELSE run.macros,
                  !.defaults = IF st.file = "config.c"
                               THEN [i \in 1..Len(run.params) |->
                                        get_default_value(run.params[i])]
                               ELSE run.defaults,
                  !.table = IF st.file = "config_console.c"
                            THEN ConsoleParamTable(run.params)
                            ELSE run.table,
                  !.families = IF st.file = "config_console.c"
                               THEN ConsoleFamilyTable(run.schema)
                               ELSE run.families]
    /\ UNCHANGED fwVars

\* the firmware built from the artifacts of a finished run starts:
\* config_init_defaults(&g_config)
BootDefaults ==
    /\ run.script = "gen_config_c"
    /\ run.status = "done"
    /\ run.boot = <<>>
    /\ run' = [run EXCEPT !.boot =
                  << [fields |-> [i \in 1..Len(run.params) |->
                                    CompiledInit(run.params[i], run.defaults[i])],
                      generation |-> 0] >>]
    /\ UNCHANGED fwVars

MaxLookups == 1

\* the firmware built from the artifacts of a finished run looks a name up
FindInGenerated ==
    /\ run.script = "gen_config_c"
    /\ run.status = "done"
    /\ run.lookups < MaxLookups
    /\ \E name \in LookupNames(run.table) :
          run' = [run EXCEPT !.query = name, !.found = FindParam(run.table, name),
                            !.lookups = run.lookups + 1]
    /\ UNCHANGED fwVars

\* the object a parameter's accessors read and write: g_config.family.name,
\* g_config.name without a family
AccessorPath(p) == IF p.family # <<>> THEN Join(p.family, p.name) ELSE p.name

\* set_<family>_<name>(v) of parameter i on the fields of the built
\* firmware: the store goes to the object the accessor names
SetGenerated(params, fields, i, v) ==
    [j \in 1..Len(params) |->
        IF AccessorPath(params[j]) = AccessorPath(params[i]) THEN v ELSE fields[j]]

\* the store of the built firmware before anything is saved: no entry under
\* any of its keys
GeneratedNvsEmpty(params) == [k \in { params[i].nvs_key : i \in 1..Len(params) } |-> NoEntry]

\* the built firmware, booted: config_save_to_nvs() with every write and the
\* commit succeeding
SaveBooted ==
    /\ run.script = "gen_config_c"
    /\ run.boot # <<>>
    /\ run.phase = "none"
    /\ LET r == SaveParamsOf(run.params, 1, run.boot[1].fields,
                             GeneratedNvsEmpty(run.params), {}, 0)
       IN  run' = [run EXCEPT !.phase = "saved", !.store = r.kv,
                             !.saved = << [ret |-> r.ret, fields |-> run.boot[1].fields] >>]
    /\ UNCHANGED fwVars

\* a setter of a u8 or u16 parameter called between the save and the load
SetBooted ==
    /\ run.script = "gen_config_c"
    /\ run.phase = "saved"
    /\ \E i \in 1..Len(run.params) :
          /\ run.params[i].type \in { "u8", "u16" }
          /\ run' = [run EXCEPT
                       !.phase = "changed",
                       !.boot = << [fields |-> SetGenerated(run.params, run.boot[1].fields, i, 7),
                                    generation |-> bump_generation(run.boot[1].generation)] >>]
    /\ UNCHANGED fwVars

\* config_load_from_nvs() of the built firmware; the store is as the save
\* left it
LoadBooted ==
    /\ run.script = "gen_config_c"
    /\ run.phase \in { "saved", "changed" }
    /\ LET r == LoadParamsOf(run.params, 1, run.boot[1].fields, run.store, 0)
       IN  run' = [run EXCEPT !.phase = "loaded", !.loadret = r.ret,
                             !.boot = << [fields |-> r.cfg,
                                          generation |-> run.boot[1].generation] >>]
    /\ UNCHANGED fwVars

\* the firmware built from the artifacts of a finished run looks a family up
FindFamilyInGenerated ==
    /\ run.script = "gen_config_c"
    /\ run.status = "done"
    /\ run.flookups < MaxLookups
    /\ \E name \in FamilyLookupNames(run.schema) :
          run' = [run EXCEPT !.fquery = name,
                            !.ffound = config_find_family(run.families, name),
                            !.flookups = run.flookups + 1]
    /\ UNCHANGED fwVars

(***************************************************************************)
(* gen_preset_config.py: the preset template                               *)
(***************************************************************************)
\* a default of the template as YAML writes it: the decimal num / den,
\* negative when neg
Dec(neg, num, den) == [neg |-> neg, num |-> num, den |-> den]

\* the binary exponent of num / den > 0: the e with 2^e <= num / den < 2^(e+1)
RECURSIVE Exponent(_, _, _)
Exponent(num, den, e) ==
    IF e >= 0
    THEN IF 2^(e + 1) * den <= num THEN Exponent(num, den, e + 1)
         ELSE IF 2^e * den <= num THEN e
         ELSE Exponent(num, den, e - 1)
    ELSE IF den <= num * 2^(-e) THEN e ELSE Exponent(num, den, e - 1)

\* faulty variant: the significand is cut off, not rounded
PackFloatTruncating(f) ==
    IF f.num = 0 THEN [sign |-> IF f.neg THEN 1 ELSE 0, exp |-> 0, frac |-> 0]
    ELSE LET e == Exponent(f.num, f.den, 0)
             n == f.num * 2^(23 - e)
         IN  [sign |-> IF f.neg THEN 1 ELSE 0, exp |-> e + 127, frac |-> (n \div f.den) - 2^23]

\* struct.pack('f', f): the binary32 nearest to f, ties to the even
\* significand
PackFloat(f) ==
    IF f.num = 0 THEN [sign |-> IF f.neg THEN 1 ELSE 0, exp |-> 0, frac |-> 0]
    ELSE LET e  == Exponent(f.num, f.den, 0)
             n  == f.num * 2^(23 - e)
             q  == n \div f.den
             r  == n % f.den
             m  == IF 2 * r > f.den \/ (2 * r = f.den /\ q % 2 = 1) THEN q + 1 ELSE q
         IN  IF m = 2^24
             THEN [sign |-> IF f.neg THEN 1 ELSE 0, exp |-> e + 128, frac |-> 0]
             ELSE [sign |-> IF f.neg THEN 1 ELSE 0, exp |-> e + 127, frac |-> m - 2^23]

\* struct.unpack('I', ...): the 32 bits of a binary32 as an unsigned integer
UnpackU32(b) == << b.sign * 2^15 + b.exp * 2^7 + (b.frac \div Limb), b.frac % Limb >>

HexChars == <<"0","1","2","3","4","5","6","7","8","9","A","B","C","D","E","F">>

\* f"{n:04X}" of a 16-bit limb
Hex4(n) ==
    << HexChars[(n \div 4096) + 1], HexChars[((n \div 256) % 16) + 1],
       HexChars[((n \div 16) % 16) + 1], HexChars[(n % 16) + 1] >>

\* float_to_bits(f): f"0x{bits:08X}"
float_to_bits(f) ==
    LET bits == UnpackU32(PackFloat(f)) IN <<"0","x">> \o Hex4(bits[1]) \o Hex4(bits[2])

HexVal(c) == (CHOOSE k \in 1..Len(HexChars) : HexChars[k] = c) - 1

\* the u32 a Rust hexadecimal literal 0xHHHHHHHH denotes
HexLiteral(t) ==
    << HexVal(t[3]) * 4096 + HexVal(t[4]) * 256 + HexVal(t[5]) * 16 + HexVal(t[6]),
       HexVal(t[7]) * 4096 + HexVal(t[8]) * 256 + HexVal(t[9]) * 16 + HexVal(t[10]) >>

\* f32::from_bits: the sign, exponent and fraction fields of the pattern
from_bits(bits) ==
    [sign |-> bits[1] \div 2^15, exp |-> (bits[1] \div 2^7) % 2^8,
     frac |-> (bits[1] % 2^7) * Limb + bits[2]]

\* get_enum_default_index(enum_param)
get_enum_default_index(enum_param) == IndexOf(enum_param.enum_values, enum_param.default)

EnumParam(values, default) == [enum_values |-> values, default |-> default]

IambicModes  == <<"A", "B">>
MemoryModes  == <<"NONE", "DOT_ONLY", "DAH_ONLY", "DOT_AND_DAH">>
SqueezeModes == <<"LATCH_OFF", "LATCH_ON">>

\* the float defaults tried: whole, binary and decimal fractions
FloatInputs ==
    { Dec(FALSE, 0, 1), Dec(FALSE, 60, 1), Dec(FALSE, 99, 1), Dec(FALSE, 100, 1),
      Dec(FALSE, 1, 2), Dec(FALSE, 125, 10), Dec(FALSE, 333, 10), Dec(FALSE, 667, 10),
      Dec(FALSE, 1, 10), Dec(FALSE, 9999, 100), Dec(TRUE, 15, 10), Dec(TRUE, 0, 1) }

\* the iambic_presets sections handed to generate_preset_code
PresetInputs ==
    { [count |-> 2,
       preset_template |->
         [speed_wpm |-> [default |-> 25],
          iambic_mode |-> EnumParam(IambicModes, im),
          memory_mode |-> EnumParam(MemoryModes, mm),
          squeeze_mode |-> EnumParam(SqueezeModes, "LATCH_OFF"),
          mem_block_start_pct |-> [default |-> a],
          mem_block_end_pct |-> [default |-> Dec(FALSE, 99, 1)]]] :
       im \in {"A", "B"}, mm \in {"NONE", "DAH_ONLY", "DOT_AND_DAH", "BOTH"},
       a \in FloatInputs }
    \cup { [count |-> n,
            preset_template |->
              [speed_wpm |-> [default |-> 25],
               iambic_mode |-> EnumParam(IambicModes, "A"),
               memory_mode |-> EnumParam(MemoryModes, "NONE"),
               squeeze_mode |-> EnumParam(SqueezeModes, "LATCH_OFF"),
               mem_block_start_pct |-> [default |-> Dec(FALSE, 60, 1)],
               mem_block_end_pct |-> [default |-> Dec(FALSE, 99, 1)]]] : n \in {1, 3} }

\* the last call made on the preset container: its index argument, what it
\* returned and the active index before it
PresetCall(op, index, ret, before) == [op |-> op, index |-> index, ret |-> ret, before |-> before]
NoPresetCall == PresetCall("none", 0, <<>>, 0)

PresetStart(presets_schema) ==
    [script |-> "gen_preset_config", schema |-> presets_schema, pc |-> 0,
     status |-> "running", error |-> "none", enums |-> <<>>, bits |-> <<>>, mem |-> <<>>,
     active_index |-> 0, pops |-> 0, pop |-> NoPresetCall]

\* list.index raises ValueError for a default that is no member
IndexRaises(enum_param) ==
    \A j \in 1..Len(enum_param.enum_values) : enum_param.enum_values[j] # enum_param.default

\* generate_preset_code: the three enum ordinals of IambicPreset::new
PresetEnums ==
    /\ run.script = "gen_preset_config"
    /\ run.status = "running"
    /\ run.pc = 0
    /\ LET t == run.schema.preset_template
           e == << t.iambic_mode, t.memory_mode, t.squeeze_mode >>
       IN  IF \E k \in 1..3 : IndexRaises(e[k])
           THEN run' = [run EXCEPT !.status = "error", !.error = "ValueError"]
           ELSE run' = [run EXCEPT !.pc = 1,
                                   !.enums = [k \in 1..3 |-> get_enum_default_index(e[k])]]
    /\ UNCHANGED fwVars

\* generate_preset_code: the two bit patterns of IambicPreset::new
PresetFloats ==
    /\ run.script = "gen_preset_config"
    /\ run.status = "running"
    /\ run.pc = 1
    /\ LET t == run.schema.preset_template
       IN  run' = [run EXCEPT !.pc = 2, !.status = "done",
                     !.bits = << float_to_bits(t.mem_block_start_pct.default),
                                 float_to_bits(t.mem_block_end_pct.default) >>]
    /\ UNCHANGED fwVars

\* the firmware: get_mem_start() and get_mem_end() of a preset
GetMem ==
    /\ run.script = "gen_preset_config"
    /\ run.status = "done"
    /\ run.mem = <<>>
    /\ run' = [run EXCEPT !.mem = << from_bits(HexLiteral(run.bits[1])),
                                     from_bits(HexLiteral(run.bits[2])) >>]
    /\ UNCHANGED fwVars

\* IambicPresets::activate without its test of the index
activate_unchecked(count, active_index, index) == index

\* IambicPresets::activate(index): the active index afterwards
activate(count, active_index, index) ==
    IF index < count THEN index ELSE active_index

\* IambicPresets::active(): the slot of the preset returned,
\* &self.presets[idx.min(count - 1)]
active(count, active_index) ==
    IF active_index < count - 1 THEN active_index ELSE count - 1

\* IambicPresets::get(index): Some(&presets[index]) as << index >>, None as <<>>
get(count, index) == IF index < count THEN << index >> ELSE <<>>

MaxPresetOps == 2

\* indices handed to activate and get: every slot, the two past the last,
\* and a large one
PresetIndexInputs(count) == 0..(count + 1) \cup { 65535 }

PresetOpen ==
    /\ run.script = "gen_preset_config"
    /\ run.status = "done"
    /\ run.pops < MaxPresetOps

PresetActivate ==
    /\ PresetOpen
    /\ \E index \in PresetIndexInputs(run.schema.count) :
          run' = [run EXCEPT
                    !.active_index = activate(run.schema.count, run.active_index, index),
                    !.pops = run.pops + 1,
                    !.pop = PresetCall("activate", index, <<>>, run.active_index)]
    /\ UNCHANGED fwVars

PresetActive ==
    /\ PresetOpen
    /\ run' = [run EXCEPT
                 !.pops = run.pops + 1,
                 !.pop = PresetCall("active", 0, << active(run.schema.count, run.active_index) >>,
                                    run.active_index)]
    /\ UNCHANGED fwVars

PresetGet ==
    /\ PresetOpen
    /\ \E index \in PresetIndexInputs(run.schema.count) :
          run' = [run EXCEPT
                    !.pops = run.pops + 1,
                    !.pop = PresetCall("get", index, get(run.schema.count, index),
                                       run.active_index)]
    /\ UNCHANGED fwVars

(***************************************************************************)
(* The build: one run of a generator script, then the generated lookups    *)
(***************************************************************************)
InitBuild ==
    /\ \E image \in { [open |-> "not_found", kv |-> NvsEmpty] } :
          cfg = config_init_defaults /\ generation = 0 /\ nvs = image
          /\ pre = [cfg |-> config_init_defaults, generation |-> 0, nvs |-> image]
    /\ last = NoCall
    /\ nops = 0
    /\ nsets = 0
    /\ wr = <<>>
    /\ rd = RdIdle
    /\ hist = [on |-> FALSE]
    /\ run \in { RunStart(schema) : schema \in SchemaInputs }
               \cup { PresetStart(ps) : ps \in PresetInputs }

NextBuild ==
    \/ ParseSchema
    \/ Generate
    \/ FindInGenerated
    \/ FindFamilyInGenerated
    \/ BootDefaults
    \/ SaveBooted
    \/ SetBooted
    \/ LoadBooted
    \/ PresetEnums
    \/ PresetFloats
    \/ PresetActivate
    \/ PresetActive
    \/ PresetGet
    \/ GetMem

SpecBuild == InitBuild /\ [][NextBuild]_vars

(***************************************************************************)
(* Properties of the console task                                          *)
(***************************************************************************)
Unchanged == cfg = pre.cfg /\ generation = pre.generation

KnownName(name) ==
    \E i \in PIdx : CONSOLE_PARAMS[i].full_path = name \/ CONSOLE_PARAMS[i].name = name

IsIntType(t) == t \in {"u8", "u16", "u32", "enum"}

\* C4: every operation that changes the value of a field also increments the
\* generation counter: no completed call leaves a changed field with an
\* unchanged counter.
C4_MutationBumpsGeneration ==
    (last.op # "none" /\ cfg # pre.cfg) => generation = bump_generation(pre.generation)

\* a decimal literal: an optional minus sign and digits without leading zero
IsDigit(c) == DigitVal(c) < 10
Magnitude(v) == IF v # <<>> /\ Head(v) = "-" THEN Tail(v) ELSE v
IsDecimalLiteral(v) ==
    /\ Magnitude(v) # <<>>
    /\ \A j \in 1..Len(Magnitude(v)) : IsDigit(Magnitude(v)[j])
    /\ Len(Magnitude(v)) > 1 => Magnitude(v)[1] # "0"
IsNegative(v) == v # <<>> /\ Head(v) = "-" /\ Magnitude(v) # <<"0">>

\* a < b for two digit strings without leading zeros
DecLt(a, b) ==
    \/ Len(a) < Len(b)
    \/ /\ Len(a) = Len(b)
       /\ \E j \in 1..Len(a) :
            /\ DigitVal(a[j]) < DigitVal(b[j])
            /\ \A h \in 1..(j-1) : a[h] = b[h]

ValueBelowMin(v, d) == IsNegative(v) \/ DecLt(Magnitude(v), DecimalU32(d.min))
ValueAboveMax(v, d) == ~IsNegative(v) /\ DecLt(DecimalU32(d.max), Magnitude(v))
ValueIsBound(v, d)  == ~IsNegative(v) /\ Magnitude(v) \in { DecimalU32(d.min), DecimalU32(d.max) }

\* the decimal text of the stored field i
FieldText(i) == IF Params[i].type = "u32" THEN DecimalU32(cfg[i]) ELSE Decimal(cfg[i])

\* C6: for a numeric or enum parameter with descriptor bounds [min,max], a
\* string set with a value below min or above max returns OutOfRange (-2)
\* and leaves field and generation counter unchanged; a value equal to min
\* or to max is accepted, stored, and returns success.
C6_RangeChecked ==
    \A i \in PIdx :
        ( /\ last.op = "set"
          /\ config_find_param(last.name) = i
          /\ IsIntType(CONSOLE_PARAMS[i].type)
          /\ IsDecimalLiteral(last.value) )
        => /\ (ValueBelowMin(last.value, CONSOLE_PARAMS[i]) \/ ValueAboveMax(last.value, CONSOLE_PARAMS[i]))
                => (last.ret = RET_OUT_OF_RANGE /\ Unchanged)
           /\ ValueIsBound(last.value, CONSOLE_PARAMS[i])
                => ( /\ last.ret = RET_OK
                     /\ FieldText(i) = Magnitude(last.value)
                     /\ generation = bump_generation(pre.generation) )

\* an integer literal in the sense of strtoul with base 0: the whole string
\* is a sign-less or signed decimal, octal or hexadecimal number
IsIntLiteral(v) ==
    LET m == IF v # <<>> /\ Head(v) \in {"-", "+"} THEN Tail(v) ELSE v
        hex == Len(m) >= 3 /\ m[1] = "0" /\ m[2] \in {"x", "X"}
        digits == IF hex THEN Tail(Tail(m)) ELSE m
        base == IF hex THEN 16 ELSE IF m # <<>> /\ Head(m) = "0" THEN 8 ELSE 10
    IN  /\ digits # <<>>
        /\ \A j \in 1..Len(digits) : DigitVal(digits[j]) < base

\* C7: for an integer-typed parameter, a string set whose value is not a
\* valid integer literal fails with a result that is neither success nor
\* OutOfRange, and leaves field and generation counter unchanged.
C7_ParseFailureDistinct ==
    ( /\ last.op = "set"
      /\ config_find_param(last.name) # 0
      /\ IsIntType(CONSOLE_PARAMS[config_find_param(last.name)].type)
      /\ ~IsIntLiteral(last.value) )
    => (last.ret \notin {RET_OK, RET_OUT_OF_RANGE} /\ Unchanged)

\* a pattern without wildcard
WildcardFree(pattern) == \A j \in 1..Len(pattern) : pattern[j] # "*"

\* C8: get and set by a name that is neither the full path nor the bare name
\* of a descriptor return UnknownParameter and leave every field and the
\* generation counter unchanged; a wildcard-free pattern that matches no
\* descriptor makes the matcher call the visitor zero times.
C8_UnknownNameRejected ==
    /\ (last.op \in {"get", "set"} /\ ~KnownName(last.name))
          => (last.ret = RET_UNKNOWN /\ Unchanged)
    /\ (last.op = "foreach" /\ WildcardFree(last.name) /\ ~KnownName(last.name))
          => (last.out = <<>> /\ Unchanged)

\* an unknown name was refused by set after an earlier set had changed the
\* configuration and bumped the generation counter
C8_Witness ==
    /\ last.op = "set"
    /\ last.name = S_nosuch
    /\ last.ret = RET_UNKNOWN
    /\ cfg # config_init_defaults
    /\ generation = 1

\* the table indices of the set S, from i on, in table order
RECURSIVE InOrder(_, _)
InOrder(i, S) ==
    IF i > NParams THEN <<>>
    ELSE (IF i \in S THEN << i >> ELSE <<>>) \o InOrder(i + 1, S)

FamilyNames == { Schema.families[k].name : k \in 1..Len(Schema.families) }

\* C9: "F.*" visits exactly the direct parameters of family F, "F.**" all
\* parameters of F and its subfamilies, "*" every descriptor, and a
\* wildcard-free pattern equal to a parameter's full path that descriptor.
C9_PatternSemantics ==
    last.op = "foreach" =>
      /\ \A F \in FamilyNames :
           /\ last.name = F \o <<".","*">> =>
                last.out = InOrder(1, { i \in PIdx : Params[i].family = F
                                                       /\ Params[i].subfamily = <<>> })
           /\ last.name = F \o <<".","*","*">> =>
                last.out = InOrder(1, { i \in PIdx : Params[i].family = F })
      /\ last.name = Star => last.out = [i \in PIdx |-> i]
      /\ \A i \in PIdx : last.name = Params[i].full_path => last.out = << i >>

\* the (alias, family name) pairs of the schema
Aliases ==
    UNION { { << Schema.families[k].aliases[a], Schema.families[k].name >> :
                a \in 1..Len(Schema.families[k].aliases) } : k \in 1..Len(Schema.families) }

\* C10: a wildcard pattern whose prefix is an alias of a family visits the
\* same descriptors, in the same order, as the pattern written with the
\* family's name.
C10_AliasExpanded ==
    last.op = "foreach" =>
      \A al \in Aliases, tail \in { <<".","*">>, <<".","*","*">> } :
         last.name = al[1] \o tail => last.out = config_foreach_matching(al[2] \o tail)

(***************************************************************************)
(* Properties of the threads                                               *)
(***************************************************************************)
\* C1: every completed set increases the 16-bit generation counter by
\* exactly one modulo 2^16: after N completed sets, issued by any threads in
\* any interleaving, the counter equals N mod 65536.
C1_GenerationCountsSets == generation = nsets % 65536

\* the counter has wrapped around: more than 65536 sets are complete, and a
\* further set is between its store and its bump
C1_Witness == nsets > 65536 /\ generation = 1 /\ Active > 0

\* what a reader that reads field f from configuration c gets
FieldValue(c, f) == get_fn(c, f)

\* C2: a reader that loads the generation counter, reads two or more fields,
\* loads the counter again and retries on a difference only ever accepts a
\* combination of values the configuration held together at one instant.
C2_SnapshotConsistent ==
    (rd.pc = "done" /\ rd.accepted /\ Len(rd.fields) >= 2) =>
        \E c \in hist.held :
            \A k \in 1..Len(rd.fields) : rd.got[k] = FieldValue(c, rd.fields[k])

\* the complete values field f has been given: its default and the value of
\* every set of it begun so far
CompleteValues(f) == { hist.vals[f][n] : n \in 1..Len(hist.vals[f]) }

\* C3: a read of a field that runs concurrently with a set of that field
\* returns the complete value from before the set or the complete value from
\* after it, never a mixture, for every field type, strings included.
C3_NoTornRead ==
    \A k \in 1..Len(rd.got) : rd.got[k] \in CompleteValues(rd.fields[k])

\* C5: once a thread has observed the counter value produced by a set, a
\* subsequent read of the field written by that set returns the value of
\* that set or of a later set of the same field, never an older value.
C5_PublishedVisible ==
    \A k \in 1..Len(rd.got) :
        LET f == rd.fields[k]
        IN  rd.obs[f] >= 1 =>
              \E n \in (rd.obs[f] + 1)..Len(hist.vals[f]) : rd.got[k] = hist.vals[f][n]

(***************************************************************************)
(* Properties of the persistence task                                      *)
(***************************************************************************)
\* the indices of the parameters whose key the store can deliver
Readable(kv) == { i \in PIdx : NvsGetOk(kv, Params[i]) }

\* C15: a bulk load from a store whose namespace does not exist, or exists
\* and holds no key, returns the count 0 and leaves every field (a default
\* stays a default) and the generation counter as they were.
C15_EmptyStoreLoadsNothing ==
    ( /\ last.op = "load"
      /\ nvs.open = "not_found" \/ (nvs.open = "ok" /\ nvs.kv = NvsEmpty) )
    => ( /\ last.ret = 0
         /\ Unchanged
         /\ pre.cfg = config_init_defaults => cfg = config_init_defaults )

\* a load from a missing namespace and one from an empty namespace after a
\* set: the firmware has answered 0
C15_Witness ==
    /\ last.op = "load"
    /\ nvs.open \in {"not_found", "ok"}
    /\ nvs.kv = NvsEmpty
    /\ last.ret = 0
    /\ nops = 2
    /\ cfg # config_init_defaults

\* C16: bulk load stores exactly the fields whose key was read, leaves every
\* other field at its previous value and returns the number of keys read;
\* bulk save with a successful commit writes every key that does not fail,
\* leaves the failing ones, and returns the number of keys written.  No
\* per-key failure ends the loop.
C16_BulkCountsPerKey ==
    /\ (last.op = "load" /\ nvs.open = "ok") =>
          /\ last.ret = Cardinality(Readable(nvs.kv))
          /\ \A i \in PIdx :
                IF i \in Readable(nvs.kv)
                THEN get_fn(cfg, i) =
                       (IF Params[i].type = "bool" THEN nvs.kv[Params[i].nvs_key][2] # 0
                        ELSE nvs.kv[Params[i].nvs_key][2])
                ELSE cfg[i] = pre.cfg[i]
    /\ (last.op = "save" /\ pre.nvs.open # "fail" /\ last.commit = "ok") =>
          /\ last.ret = Cardinality({ i \in PIdx : Params[i].nvs_key \notin last.failing })
          /\ \A i \in PIdx :
                IF Params[i].nvs_key \in last.failing
                THEN nvs.kv[Params[i].nvs_key] = pre.nvs.kv[Params[i].nvs_key]
                ELSE nvs.kv[Params[i].nvs_key][2] =
                       (IF Params[i].type = "bool" THEN (IF cfg[i] THEN 1 ELSE 0)
                        ELSE get_fn(cfg, i))

\* a load that read some keys after a key that could not be read
C16_Witness ==
    /\ last.op = "load"
    /\ nvs.open = "ok"
    /\ last.ret >= 2
    /\ \E i, j \in PIdx : i < j /\ i \notin Readable(nvs.kv) /\ j \in Readable(nvs.kv)
    /\ cfg # pre.cfg

\* C17: when the store cannot be opened, bulk load and bulk save return the
\* fatal result, which is no success count, and touch neither a key nor a
\* field; a failed commit of bulk save is reported as the same fatal result.
C17_OpenFailureIsFatal ==
    /\ NVS_FATAL \notin 0..NParams
    /\ (last.op = "load" /\ nvs.open = "fail") => (last.ret = NVS_FATAL /\ Unchanged)
    /\ (last.op = "save" /\ pre.nvs.open = "fail") =>
          (last.ret = NVS_FATAL /\ Unchanged /\ nvs = pre.nvs)
    /\ (last.op = "save" /\ pre.nvs.open # "fail" /\ last.commit = "fail") =>
          (last.ret = NVS_FATAL /\ Unchanged)

\* a save whose commit failed although every key had been written
C17_Witness ==
    /\ last.op = "save"
    /\ pre.nvs.open = "ok"
    /\ last.commit = "fail"
    /\ last.failing = {}
    /\ last.ret = NVS_FATAL

\* C18: single-parameter load and save resolve the name as a full path: for
\* the full path of a parameter the call succeeds, and a save commits that
\* parameter's key (only that key); for any other name the call fails with
\* UnknownParameter.
C18_SingleParamByFullPath ==
    last.op \in {"load_param", "save_param"} =>
       IF \E i \in PIdx : Params[i].full_path = last.name
       THEN /\ last.ret \in {"ESP_OK", "Ok"}
            /\ cfg = pre.cfg
            /\ last.op = "save_param" =>
                  \A i \in PIdx :
                     IF Params[i].full_path = last.name
                     THEN /\ nvs.kv[Params[i].nvs_key] # NoEntry
                          /\ nvs.kv[Params[i].nvs_key][2] =
                               (IF Params[i].type = "bool" THEN (IF cfg[i] THEN 1 ELSE 0)
                                ELSE get_fn(cfg, i))
                     ELSE nvs.kv[Params[i].nvs_key] = pre.nvs.kv[Params[i].nvs_key]
       ELSE /\ last.ret = "UnknownParameter"
            /\ Unchanged
            /\ nvs = pre.nvs

(***************************************************************************)
(* Properties of the build                                                 *)
(***************************************************************************)
\* C11: config_find_param(n) returns a descriptor whose full path is n
\* whenever there is one, wherever it stands in the table; only when no
\* full path is n, the first descriptor in declaration order whose bare
\* name is n; and no descriptor when there is neither.
C11_FullPathBeforeBareName ==
    (run.script = "gen_config_c" /\ run.lookups > 0) =>
       LET t == run.table
           n == run.query
           f == run.found
       IN  IF \E i \in 1..Len(t) : t[i].full_path = n
           THEN f \in 1..Len(t) /\ t[f].full_path = n
           ELSE IF \E i \in 1..Len(t) : t[i].name = n
                THEN /\ f \in 1..Len(t)
                     /\ t[f].name = n
                     /\ \A j \in 1..(f - 1) : t[j].name # n
                ELSE f = 0

\* a bare name that two descriptors carry has been looked up and resolved
\* to the one declared first
C11_Witness ==
    /\ run.script = "gen_config_c"
    /\ run.lookups > 0
    /\ run.query = S_brightness
    /\ Cardinality({ i \in 1..Len(run.table) : run.table[i].name = S_brightness }) = 2
    /\ run.found = 1

\* the families in which a parameter named n is declared
FamiliesOf(params, n) == { params[i].family : i \in { j \in 1..Len(params) : params[j].name = n } }

\* C12: the accessor identifiers of two distinct parameters are distinct; a
\* short name declared in two or more families is emitted with the family
\* prefixed, a short name declared in one family only is emitted bare.
C12_AccessorIdentifiersDistinct ==
    (run.script = "gen_config_c" /\ run.macros # <<>>) =>
       /\ \A i, j \in 1..Len(run.params) : i # j => run.macros[i] # run.macros[j]
       /\ \A i \in 1..Len(run.params) :
             run.macros[i] =
                IF Cardinality(FamiliesOf(run.params, run.params[i].name)) >= 2
                THEN Upper(run.params[i].family) \o <<"_">> \o Upper(run.params[i].name)
                ELSE Upper(run.params[i].name)

\* C13: a run of the generator that ends in an error has written no
\* artifact.
C13_NoPartialOutput ==
    (run.script = "gen_config_c" /\ run.status = "error") => run.written = <<>>

\* the parameter satisfies what schema loading has to check
ParamValid(p) ==
    /\ "type" \notin p.lacks
    /\ "default" \notin p.lacks
    /\ p.type = "enum" =>
          /\ "enum_values" \notin p.lacks
          /\ \E j \in 1..Len(p.enum_values) : p.enum_values[j] = p.default
    /\ p.range # NoRange => (p.range[1] <= p.default /\ p.default <= p.range[2])

\* the full path of a normalized parameter: for a flat schema its name
SchemaFullPath(p) == IF "full_path" \in p.lacks THEN p.name ELSE p.full_path

SchemaValid(schema) ==
    LET ps == Normalize(schema)
    IN  /\ \A i \in 1..Len(ps) : ParamValid(ps[i])
        /\ \A i, j \in 1..Len(ps) : i # j => SchemaFullPath(ps[i]) # SchemaFullPath(ps[j])

\* C14: no schema in which a parameter lacks its type or default, an enum
\* lacks enum_values, a default lies outside its range or enum set, or two
\* parameters share a full path is accepted: the run never completes.
C14_InvalidSchemaRejected ==
    (run.script = "gen_config_c" /\ ~SchemaValid(run.schema)) => run.status # "done"

\* ordinal is the zero-based first position of the default in enum_values
IsOrdinalOf(ordinal, enum_param) ==
    /\ ordinal + 1 \in 1..Len(enum_param.enum_values)
    /\ enum_param.enum_values[ordinal + 1] = enum_param.default
    /\ \A j \in 1..ordinal : enum_param.enum_values[j] # enum_param.default

\* C19: the default emitted for an enum parameter, and for an enum field of
\* the preset template, is the zero-based position of the declared default
\* in enum_values; enum_values at that position is the declared default.
C19_EnumOrdinal ==
    /\ (run.script = "gen_config_c" /\ run.defaults # <<>>) =>
          \A i \in 1..Len(run.params) :
             run.params[i].type = "enum" =>
                IsOrdinalOf(ParseDec(run.defaults[i]), run.params[i])
    /\ (run.script = "gen_preset_config" /\ run.enums # <<>>) =>
          LET t == run.schema.preset_template
          IN  /\ IsOrdinalOf(run.enums[1], t.iambic_mode)
              /\ IsOrdinalOf(run.enums[2], t.memory_mode)
              /\ IsOrdinalOf(run.enums[3], t.squeeze_mode)

\* config.c has been emitted for an enum whose default is its third value
C19_Witness ==
    /\ run.script = "gen_config_c"
    /\ run.defaults # <<>>
    /\ \E i \in 1..Len(run.params) :
          /\ run.params[i].type = "enum"
          /\ run.params[i].default = "C"
          /\ run.defaults[i] = <<"2">>

\* v is the binary32 nearest to the decimal f, ties to the even significand
IsNearestSingle(v, f) ==
    /\ v.sign = (IF f.neg THEN 1 ELSE 0)
    /\ IF f.num = 0 THEN v.exp = 0 /\ v.frac = 0
       ELSE LET m == 2^23 + v.frac
                e == v.exp - 127
                d == m * f.den - f.num * 2^(23 - e)
                a == IF d < 0 THEN -d ELSE d
            IN  /\ v.exp \in 1..254
                /\ 2 * a <= f.den
                /\ 2 * a = f.den => m % 2 = 0

\* C20: the pattern emitted for a float field of the preset template is the
\* IEEE-754 single-precision encoding of the declared default, and the value
\* the firmware decodes from it by bit reinterpretation encodes to the same
\* 32 bits.
C20_FloatBitsRoundTrip ==
    run.script = "gen_preset_config" =>
       LET t == run.schema.preset_template
           f == << t.mem_block_start_pct.default, t.mem_block_end_pct.default >>
       IN  /\ run.bits # <<>> =>
                \A k \in 1..2 : IsNearestSingle(from_bits(HexLiteral(run.bits[k])), f[k])
           /\ run.mem # <<>> =>
                \A k \in 1..2 : UnpackU32(run.mem[k]) = HexLiteral(run.bits[k])

\* the firmware has decoded the pattern of 33.3, a default no binary32 equals
C20_Witness ==
    /\ run.script = "gen_preset_config"
    /\ run.mem # <<>>
    /\ run.schema.preset_template.mem_block_start_pct.default = Dec(FALSE, 333, 10)
    /\ run.bits[1] = <<"0","x","4","2","0","5","3","3","3","3">>
    /\ run.mem[1] = [sign |-> 0, exp |-> 132, frac |-> 340787]

\* the declared default that a field of parameter p decodes to
DecodesTo(p, field) ==
    CASE p.type = "bool"   -> field
      [] p.type = "enum"   -> IF field + 1 \in 1..Len(p.enum_values)
                              THEN p.enum_values[field + 1] ELSE "undefined"
      [] p.type = "string" -> CString(field)
      [] p.type = "u32"    -> field[1] * Limb + field[2]
      [] OTHER             -> field

\* C21: immediately after config_init_defaults every field decodes to the
\* default its parameter declares (number, bool, enum value, the full text
\* of a string) and the generation counter is 0.
C21_InitDefaultsDecode ==
    (run.script = "gen_config_c" /\ run.boot # <<>>) =>
       /\ run.boot[1].generation = 0
       /\ \A i \in 1..Len(run.params) :
             DecodesTo(run.params[i], run.boot[1].fields[i]) = run.params[i].default

\* the parameters a version 2 document declares outside composite
\* subfamilies, as << family, subfamily, name >> in declaration order
RECURSIVE DeclaredIn(_, _)
DeclaredIn(fams, k) ==
    IF k > Len(fams) THEN <<>>
    ELSE LET f == fams[k]
             direct == [i \in 1..Len(f.parameters) |-> << f.name, <<>>, f.parameters[i].name >>]
             subs == [n \in 1..Len(f.subfamilies) |->
                        IF f.subfamilies[n].is_composite THEN <<>>
                        ELSE [i \in 1..Len(f.subfamilies[n].parameters) |->
                                << f.name, f.subfamilies[n].name,
                                   f.subfamilies[n].parameters[i].name >>]]
         IN  direct \o Flatten(subs) \o DeclaredIn(fams, k + 1)

Declared(schema) ==
    IF schema.version = 2 THEN DeclaredIn(schema.families, 1)
    ELSE [i \in 1..Len(schema.parameters) |-> << <<>>, <<>>, schema.parameters[i].name >>]

\* family[.subfamily].name
PathOf(d) ==
    IF d[1] = <<>> THEN d[3]
    ELSE IF d[2] = <<>> THEN d[1] \o <<".">> \o d[3]
    ELSE d[1] \o <<".">> \o d[2] \o <<".">> \o d[3]

\* C22: for both schema versions the normalized list holds exactly the
\* parameters declared outside composite subfamilies, once each and in
\* declaration order, every entry with its family, subfamily and full path;
\* and a valid flat (version 1) schema is generated to completion like a
\* version 2 schema: its run does not end in an error.
C22_NormalizedList ==
    (run.script = "gen_config_c" /\ run.pc >= 1) =>
       LET d == Declared(run.schema)
       IN  /\ Len(run.params) = Len(d)
           /\ \A i \in 1..Len(d) :
                 /\ run.params[i].name = d[i][3]
                 /\ run.params[i].family = d[i][1]
                 /\ run.params[i].subfamily = d[i][2]
                 /\ "full_path" \notin run.params[i].lacks
                 /\ run.params[i].full_path = PathOf(d[i])
           /\ (run.schema.version = 1 /\ SchemaValid(run.schema)) => run.status # "error"

\* the descriptor a console call's name resolves to is the bool parameter
OnBool(name) ==
    /\ config_find_param(name) # 0
    /\ CONSOLE_PARAMS[config_find_param(name)].type = "bool"

\* C23: a set of a bool parameter stores true exactly for the texts "true",
\* "1", "on", "yes" and false exactly for "false", "0", "off", "no", compared
\* case-sensitively; any other text returns -3 and leaves every field and
\* the generation counter as they were.
C23_BoolTokens ==
    (last.op = "set" /\ OnBool(last.name)) =>
       LET i == config_find_param(last.name)
       IN  IF last.value \in { <<"t","r","u","e">>, <<"1">>, <<"o","n">>, <<"y","e","s">> }
           THEN last.ret = 0 /\ cfg[i] = TRUE
           ELSE IF last.value \in { <<"f","a","l","s","e">>, <<"0">>, <<"o","f","f">>, <<"n","o">> }
           THEN last.ret = 0 /\ cfg[i] = FALSE
           ELSE last.ret = -3 /\ cfg = pre.cfg /\ generation = pre.generation

\* "yes" stored true over a stored false, and a differently cased text was
\* refused afterwards
C23_Witness ==
    /\ last.op = "set" /\ OnBool(last.name)
    /\ last.value = <<"Y","e","s">> /\ last.ret = -3
    /\ cfg[config_find_param(last.name)] = TRUE
    /\ pre.generation = 1

IntegerTypes == { "u8", "u16", "u32", "enum" }

\* the unsigned long a field's value is when printed by the getter
AsU32(t, v) == IF t = "u32" THEN v ELSE U32(v)

\* C24: after a successful set of an integer-typed parameter (u8, u16, u32,
\* enum), get yields the decimal text of exactly the integer that was parsed
\* from the set's text, never that integer reduced modulo the field's width,
\* and setting the text get yields succeeds and leaves every field unchanged.
C24_ParseFormatRoundTrip ==
    (/\ last.op = "set" /\ last.ret = 0
     /\ CONSOLE_PARAMS[config_find_param(last.name)].type \in IntegerTypes) =>
       LET g == config_get_param_str(cfg, last.name, 16)
           r == config_set_param_str(cfg, generation, last.name, g.out)
       IN  /\ g.ret = 0
           /\ g.out = DecimalU32(Strtoul(last.value))
           /\ r.ret = 0
           /\ r.cfg = cfg

\* the schema's families that declare n as their name or as an alias
NamedOrAliased(schema, n) ==
    { k \in 1..Len(schema.families) :
         \/ schema.families[k].name = n
         \/ \E a \in 1..Len(schema.families[k].aliases) : schema.families[k].aliases[a] = n }

\* C25: config_find_family(n) returns a family descriptor if and only if n
\* is some family's name or one of some family's aliases; when a family
\* named n exists it is the one returned, and an alias resolves to the
\* family that declares it.
C25_FindFamily ==
    (run.script = "gen_config_c" /\ run.flookups > 0) =>
       LET n    == run.fquery
           fams == run.schema.families
           hit  == run.ffound
       IN  /\ (hit # 0) <=> (NamedOrAliased(run.schema, n) # {})
           /\ (\E k \in 1..Len(fams) : fams[k].name = n) =>
                 (hit # 0 /\ run.families[hit].name = n)
           /\ (hit # 0 /\ \A k \in 1..Len(fams) : fams[k].name # n) =>
                 \E k \in NamedOrAliased(run.schema, n) : fams[k].name = run.families[hit].name

\* C26: the descriptor table's full paths are pairwise distinct and are the
\* schema's full paths, and a set of one parameter leaves the value every
\* other parameter's getter returns unchanged, also when two parameters of
\* one family have the same short name in different subfamilies.
C26_DescriptorsIsolated ==
    (run.script = "gen_config_c" /\ run.boot # <<>>) =>
       LET n == Len(run.params)
       IN  /\ \A i, j \in 1..n : i # j => run.table[i].full_path # run.table[j].full_path
           /\ \A i \in 1..n : run.table[i].full_path = SchemaFullPath(run.params[i])
           /\ \A i, j \in 1..n :
                 i # j => SetGenerated(run.params, run.boot[1].fields, i, 7)[j]
                             = run.boot[1].fields[j]

\* C27: in every state reached from the defaults by console sets and bulk
\* loads, every u8, u16 and u32 field lies within its descriptor's
\* [min, max] and every enum field holds an ordinal smaller than the number
\* of its enum values.
C27_FieldsWithinBounds ==
    \A i \in PIdx :
       /\ Params[i].type \in { "u8", "u16", "u32" } =>
             ~OutOfRange(AsU32(Params[i].type, cfg[i]), CONSOLE_PARAMS[i])
       /\ Params[i].type = "enum" => cfg[i] < Len(Params[i].enum_values)

\* C28: in the preset container with count slots the stored active index
\* is always smaller than count; activate with an index of count or more
\* changes nothing, activate with a smaller index makes active() return
\* that preset; active() returns a slot of the array; get(index) returns a
\* preset, the one at index, exactly when index is smaller than count.
C28_PresetContainer ==
    (run.script = "gen_preset_config" /\ run.status = "done") =>
       LET count == run.schema.count
       IN  /\ run.active_index < count
           /\ run.pop.op = "activate" =>
                 IF run.pop.index >= count
                 THEN run.active_index = run.pop.before
                 ELSE active(count, run.active_index) = run.pop.index
           /\ run.pop.op = "active" =>
                 /\ run.pop.ret[1] \in 0..(count - 1)
                 /\ run.pop.ret[1] = run.active_index
           /\ run.pop.op = "get" =>
                 /\ (run.pop.ret # <<>>) <=> (run.pop.index < count)
                 /\ run.pop.ret # <<>> => run.pop.ret[1] = run.pop.index

\* slot 2 of three was made active, then activate(3) was ignored
C28_Witness ==
    /\ run.script = "gen_preset_config" /\ run.status = "done"
    /\ run.schema.count = 3
    /\ run.pop.op = "activate" /\ run.pop.index = 3
    /\ run.pop.before = 2 /\ run.active_index = 2

\* the value the getter of parameter p returns for a field
GetterValue(p, field) == IF p.type = "string" THEN CString(field) ELSE field

\* C29: a bulk save that reports every parameter saved, followed by a bulk
\* load from the unchanged store, reports every parameter loaded and leaves
\* each field with the value it had when it was saved, whatever sets were
\* made between the two; no two parameters are persisted under one key.
C29_SaveLoadRoundTrip ==
    (/\ run.script = "gen_config_c" /\ run.phase = "loaded"
     /\ run.saved[1].ret = Len(run.params)) =>
       /\ run.loadret = Len(run.params)
       /\ \A i \in 1..Len(run.params) :
             GetterValue(run.params[i], run.boot[1].fields[i])
                = GetterValue(run.params[i], run.saved[1].fields[i])
       /\ \A i, j \in 1..Len(run.params) :
             i # j => run.params[i].nvs_key # run.params[j].nvs_key

\* pattern is P.* or P.** with a non-empty P that holds no star
IsPrefixWildcard(pattern) ==
    LET star == StrChr(pattern, "*")
    IN  /\ star >= 3
        /\ pattern[star - 1] = "."
        /\ StrFrom(pattern, star) \in { <<"*">>, <<"*","*">> }

\* the P of such a pattern
WildcardPrefix(pattern) == SubSeq(pattern, 1, StrChr(pattern, "*") - 2)

\* path is P, a separator, and further components
LiesUnder(path, P) ==
    /\ Len(path) > Len(P) + 1
    /\ StrNCmpEq(path, P \o Dot, Len(P) + 1)

\* C30: a wildcard pattern with non-empty prefix P ("P.*" or "P.**") visits
\* only descriptors whose full path is P followed by a separator and
\* further components, never one whose full path merely begins with the
\* characters of P ("led.**" must not visit "leds.brightness").
C30_WildcardUnderPrefix ==
    (last.op = "foreach" /\ IsPrefixWildcard(last.name)) =>
       \A k \in 1..Len(last.out) :
          LiesUnder(CONSOLE_PARAMS[last.out[k]].full_path, WildcardPrefix(last.name))


====
